---- MODULE Spec2Model ----
(***************************************************************************)
(* The SmartLedger PQ SDK demo: a React application whose sections call a  *)
(* key SDK (window.LumenKeys, loaded from a CDN) to create, rotate, sign   *)
(* with, export and verify ECDSA and ML-DSA keys.                          *)
(*                                                                         *)
(* The handlers of the sections are modelled from the source, one action   *)
(* per stretch of code between two awaits: a click runs the handler up to  *)
(* its first await, every later action is one SDK promise settling and the *)
(* handler running on to its next await or to its end.  A handler reads    *)
(* the props of the render in which it was started, so each handler keeps  *)
(* the key identifiers it captured when it was clicked.                    *)
(*                                                                         *)
(* The SDK itself is not part of the repository's sources (only its        *)
(* callers and its TypeScript declaration are): the key store, the suite   *)
(* registry and the signing engine are modelled from the specification.    *)
(***************************************************************************)
EXTENDS Integers, Sequences, FiniteSets, TLC

\* ------------------------------------------------------------------ bounds
\* Most key records the key store holds in a run.
MaxKeys == 4
\* The key creation section stops once the key store holds this many records.
MaxCreated == 2
\* Most SDK calls that fail (reject) in a run.
MaxFaults == 1
\* The signing handlers stop once the Signatures Created counter is this high.
MaxSigned == 3
\* Most runs of the performance test.
MaxPerfRuns == 1
\* Most files the Download button writes in a run.
MaxDownloads == 1

\* ------------------------------------------------------- values and types
\* A missing key identifier (null in the source).
NoKey == 0

EcdsaSuite == "bsv-ecdsa-secp256k1"
MldsaSuites == {"ml-dsa-44", "ml-dsa-65", "ml-dsa-87"}
\* The SignatureSuite type: the identifiers the suite registry knows.
SignatureSuite == {EcdsaSuite} \cup MldsaSuites

\* The algorithm values of the external verification form.
FormAlgorithms == {"ecdsa", "mldsa"}

BrowserAgent == "BrowserAgent"

\* The messages a handler signs (the demo's fixed texts and a typed one).
Messages == {"Hello from the browser!", "Hybrid signature test message", "typed"}

\* s.startsWith('ml-dsa')
StartsWithMldsa(s) == s \in MldsaSuites

\* The time `new Date().toISOString()` returns.
Times == {"T1"}

\* One log entry of an output panel: its type and its text, in parts.
Log(type, message) == [type |-> type, message |-> message]

\* ------------------------------------------------------------------ state
VARIABLES
    keys,        \* the SDK's key store: the key records, in creation order
    faults,      \* the SDK calls that have failed so far
    sdk,         \* App: the SDK instance (FALSE is null)
    ecdsaKeyId,  \* App: the tracked ECDSA key
    mldsaKeyId,  \* App: the tracked ML-DSA key
    stats,       \* App: the three counters of the stats cards
    init,        \* InitializeSection
    kc,          \* KeyCreationSection
    km,          \* KeyManagementSection
    sg,          \* SigningSection
    cm,          \* CustomMessageSection
    ex,          \* KeyExportSection
    vs,          \* SignatureVerificationSection
    core,        \* the last direct call of the SDK and its result
    ks,          \* KeyStorageSection
    storage,     \* localStorage: the value stored under STORAGE_KEY
    pf,          \* PerformanceSection
    issued       \* the signatures that direct sign calls have returned

vars == <<keys, faults, sdk, ecdsaKeyId, mldsaKeyId, stats,
          init, kc, km, sg, cm, ex, vs, core, ks, storage, pf, issued>>

appVars == <<sdk, ecdsaKeyId, mldsaKeyId, stats>>
keyIdVars == <<ecdsaKeyId, mldsaKeyId>>

\* ------------------------------------------------ the SDK (from the spec)
\* Whether an SDK call may fail now: a primitive fault is always possible,
\* the model allows MaxFaults of them.
Outcomes == IF faults < MaxFaults THEN {TRUE, FALSE} ELSE {TRUE}

\* Suite Registry: describe(suiteId) fails with UnknownSuite if unregistered.
Registered(suiteId) == suiteId \in SignatureSuite

\* Suite Registry: the expected public-key byte length of a suite.
PublicKeyLength(suiteId) ==
    CASE suiteId = EcdsaSuite -> 33
      [] suiteId = "ml-dsa-44" -> 1312
      [] suiteId = "ml-dsa-65" -> 1952
      [] suiteId = "ml-dsa-87" -> 2592

\* Suite Registry: the expected signature byte length of a suite.
SignatureLength(suiteId) ==
    CASE suiteId = EcdsaSuite -> 64
      [] suiteId = "ml-dsa-44" -> 2420
      [] suiteId = "ml-dsa-65" -> 3309
      [] suiteId = "ml-dsa-87" -> 4627

\* The public key of a key pair: its bytes.  A key record keeps the number
\* of its key pair (material) and the bytes are derived from it; distinct
\* key pairs differ in every byte.
PublicKeyBytes(length, material) ==
    [i \in 1..length |-> (material * 31 + i * 7) % 256]

\* The key identifiers in use.
KeyIds == 1..Len(keys)

\* A fresh key identifier that counts the records of the store's first
\* agent only.
NextKeyIdPerAgent ==
    IF keys = <<>> THEN 1
    ELSE Cardinality({k \in 1..Len(keys) : keys[k].agent = keys[1].agent}) + 1

\* A fresh key identifier: one more than the number of identifiers issued
\* so far (records are never purged, so that is the number of records).
NextKeyId == Len(keys) + 1

\* A key record as createKey stores it: status active, usage sign and
\* verify, a private handle, fresh key material of the suite's length.
NewKeyRecord(agentId, suiteId) ==
    [id |-> NextKeyId, agent |-> agentId, suite |-> suiteId, status |-> "active",
     usage |-> {"sign", "verify"}, private |-> TRUE,
     material |-> Len(keys) + 1, length |-> PublicKeyLength(suiteId)]

\* createKey(agentId, suiteId): the result of the call; ok is the outcome of
\* the key generation primitive.  A fresh identifier is the next index.
createKey(agentId, suiteId, ok) ==
    IF ~Registered(suiteId)
    THEN [ok |-> FALSE, error |-> "UnsupportedSuite", keyId |-> NoKey, keys |-> keys]
    ELSE IF ~ok
    THEN [ok |-> FALSE, error |-> "KeyGenerationFailed", keyId |-> NoKey, keys |-> keys]
    ELSE [ok |-> TRUE, error |-> "", keyId |-> NextKeyId,
          keys |-> Append(keys, NewKeyRecord(agentId, suiteId))]

\* getPublicKey(keyId)
getPublicKey(keyId) ==
    IF keyId \notin KeyIds
    THEN [ok |-> FALSE, error |-> "KeyNotFound", bytes |-> <<>>]
    ELSE [ok |-> TRUE, error |-> "",
          bytes |-> PublicKeyBytes(keys[keyId].length, keys[keyId].material)]

\* A listing that does not look at the agent of a record.
RECURSIVE listFromAnyAgent(_, _, _)
listFromAnyAgent(k, agentId, activeOnly) ==
    IF k > Len(keys) THEN <<>>
    ELSE IF ~activeOnly \/ keys[k].status = "active"
         THEN <<k>> \o listFromAnyAgent(k + 1, agentId, activeOnly)
         ELSE listFromAnyAgent(k + 1, agentId, activeOnly)

\* listKeysForAgent(agentId, activeOnly): the identifiers, in creation order.
RECURSIVE listFrom(_, _, _)
listFrom(k, agentId, activeOnly) ==
    IF k > Len(keys) THEN <<>>
    ELSE IF keys[k].agent = agentId /\ (~activeOnly \/ keys[k].status = "active")
         THEN <<k>> \o listFrom(k + 1, agentId, activeOnly)
         ELSE listFrom(k + 1, agentId, activeOnly)

listKeysForAgent(agentId, activeOnly) == listFrom(1, agentId, activeOnly)

\* No signature (an unset variable of a handler).
NoSignature == [length |-> 0, suite |-> "", material |-> 0, message |-> ""]

\* signWithKey that signs with whatever record the identifier names: it
\* asks neither for a private handle nor for the status active.
signWithKeyUnguarded(keyId, message, ok) ==
    IF keyId \notin KeyIds
    THEN [ok |-> FALSE, error |-> "KeyNotFound", signature |-> NoSignature]
    ELSE IF ~ok
    THEN [ok |-> FALSE, error |-> "CorruptSuiteOutput", signature |-> NoSignature]
    ELSE [ok |-> TRUE, error |-> "",
          signature |-> [length |-> SignatureLength(keys[keyId].suite),
                         suite |-> keys[keyId].suite,
                         material |-> keys[keyId].material,
                         message |-> message]]

\* signWithKey(keyId, message): the result of the call; ok is the outcome of
\* the suite's signing primitive.  A signature is bound to the key pair, the
\* suite and the message, and has the suite's signature length.
signWithKey(keyId, message, ok) ==
    IF keyId \notin KeyIds
    THEN [ok |-> FALSE, error |-> "KeyNotFound", signature |-> NoSignature]
    ELSE IF ~keys[keyId].private
    THEN [ok |-> FALSE, error |-> "VerifyOnlyKey", signature |-> NoSignature]
    ELSE IF keys[keyId].status # "active"
    THEN [ok |-> FALSE, error |-> "InactiveKey", signature |-> NoSignature]
    ELSE IF ~ok
    THEN [ok |-> FALSE, error |-> "CorruptSuiteOutput", signature |-> NoSignature]
    ELSE [ok |-> TRUE, error |-> "",
          signature |-> [length |-> SignatureLength(keys[keyId].suite),
                         suite |-> keys[keyId].suite,
                         material |-> keys[keyId].material,
                         message |-> message]]

\* verifySignature that refuses a key that is not active, as signing does.
verifySignatureActiveOnly(keyId, message, signature) ==
    IF keyId \notin KeyIds
    THEN [ok |-> FALSE, error |-> "KeyNotFound", valid |-> FALSE]
    ELSE IF keys[keyId].status # "active"
    THEN [ok |-> FALSE, error |-> "InactiveKey", valid |-> FALSE]
    ELSE IF signature.length # SignatureLength(keys[keyId].suite)
    THEN [ok |-> FALSE, error |-> "MalformedSignature", valid |-> FALSE]
    ELSE [ok |-> TRUE, error |-> "",
          valid |-> /\ signature.suite = keys[keyId].suite
                    /\ signature.material = keys[keyId].material
                    /\ signature.message = message]

\* verifySignature(keyId, message, signature): the status of the key is
\* irrelevant; a signature of the wrong length is malformed.
verifySignature(keyId, message, signature) ==
    IF keyId \notin KeyIds
    THEN [ok |-> FALSE, error |-> "KeyNotFound", valid |-> FALSE]
    ELSE IF signature.length # SignatureLength(keys[keyId].suite)
    THEN [ok |-> FALSE, error |-> "MalformedSignature", valid |-> FALSE]
    ELSE [ok |-> TRUE, error |-> "",
          valid |-> /\ signature.suite = keys[keyId].suite
                    /\ signature.material = keys[keyId].material
                    /\ signature.message = message]

\* A deactivate that flips the status of the record.
deactivateInToggle(store, keyId) ==
    IF keyId \notin 1..Len(store)
    THEN [ok |-> FALSE, error |-> "KeyNotFound", keys |-> store]
    ELSE [ok |-> TRUE, error |-> "",
          keys |-> [store EXCEPT ![keyId].status =
                        IF @ = "active" THEN "inactive" ELSE "active"]]

\* deactivate(keyId) on a key store: the status of the record becomes
\* inactive (it stays so if it is already), nothing else changes.
deactivateIn(store, keyId) ==
    IF keyId \notin 1..Len(store)
    THEN [ok |-> FALSE, error |-> "KeyNotFound", keys |-> store]
    ELSE [ok |-> TRUE, error |-> "",
          keys |-> [store EXCEPT ![keyId].status = "inactive"]]

\* deactivate(keyId): the result of the call.
deactivate(keyId) == deactivateIn(keys, keyId)

\* The key pair a public key belongs to: the public keys of the model are
\* told apart by their first byte (see PublicKeyBytes).
ImportedMaterial(bytes) ==
    IF bytes = <<>> THEN 0
    ELSE CHOOSE m \in 0..255 : bytes[1] = (m * 31 + 7) % 256

\* importPublicKey(bytes, suiteId): the result of the call.  The suite's
\* descriptor is looked up first (UnknownSuite if unregistered), then the
\* length is validated against it; the record is verification-only.
importPublicKey(bytes, suiteId) ==
    IF ~Registered(suiteId)
    THEN [ok |-> FALSE, error |-> "UnknownSuite", keyId |-> NoKey, keys |-> keys]
    ELSE IF Len(bytes) # PublicKeyLength(suiteId)
    THEN [ok |-> FALSE, error |-> "MalformedKey", keyId |-> NoKey, keys |-> keys]
    ELSE [ok |-> TRUE, error |-> "", keyId |-> NextKeyId,
          keys |-> Append(keys,
                     [id |-> NextKeyId, agent |-> "", suite |-> suiteId, status |-> "active",
                      usage |-> {"verify"}, private |-> FALSE,
                      material |-> ImportedMaterial(bytes), length |-> Len(bytes)])]

\* ----------------------------------------------------------------- App.tsx
\* A handleKeyCreated that tracks the key under the other type.
handleKeyCreatedSwapped(keyId, type) ==
    /\ IF type = "ecdsa"
       THEN mldsaKeyId' = keyId /\ UNCHANGED ecdsaKeyId
       ELSE ecdsaKeyId' = keyId /\ UNCHANGED mldsaKeyId

\* handleKeyCreated: the tracked key of the type, and the keys counter
handleKeyCreated(keyId, type) ==
    /\ IF type = "ecdsa"
       THEN ecdsaKeyId' = keyId /\ UNCHANGED mldsaKeyId
       ELSE mldsaKeyId' = keyId /\ UNCHANGED ecdsaKeyId

\* A handleStatsUpdate that counts the signature and not the verification.
statsUpdatedSignatureOnly(s) ==
    [s EXCEPT !.signaturesCreated = @ + 1]

\* handleStatsUpdate, applied to a value of the counters
statsUpdated(s) ==
    [s EXCEPT !.signaturesCreated = @ + 1, !.verifications = @ + 1]

keyCounted(s) == [s EXCEPT !.keysCreated = @ + 1]

\* ------------------------------------------------------ InitializeSection
\* handleInitialize up to `await loadSDKFromCDN()`.
InitializeStart ==
    /\ ~init.isLoading /\ ~init.isInitialized
    /\ init.pc = "idle"
    /\ init' = [init EXCEPT !.isLoading = TRUE, !.pc = "load",
                            !.logs = <<Log("info", <<"Loading SDK from CDN...">>)>>]
    /\ UNCHANGED <<keys, faults, appVars, kc, km, sg, cm, ex, vs, core>>
    /\ UNCHANGED <<ks, storage, pf, issued>>

\* loadSDKFromCDN settles; on success the handler goes on to createKeySDK.
InitializeLoaded ==
    /\ init.pc = "load"
    /\ \E ok \in Outcomes :
        IF ok
        THEN /\ init' = [init EXCEPT !.pc = "create", !.lumenKeys = TRUE,
                          !.logs = @ \o <<Log("info", <<"Creating KeySDK instance...">>)>>]
             /\ UNCHANGED faults
        ELSE /\ init' = [init EXCEPT !.pc = "idle", !.isLoading = FALSE,
                          !.logs = @ \o <<Log("error",
                              <<"Initialization failed: ", "Failed to load SDK from CDN">>)>>]
             /\ faults' = faults + 1
    /\ UNCHANGED <<keys, appVars, kc, km, sg, cm, ex, vs, core>>
    /\ UNCHANGED <<ks, storage, pf, issued>>

\* A handleInitialize that hands the instance over and leaves its button
\* enabled (no setIsInitialized(true)).
InitializeCreatedAgain ==
    /\ init.pc = "create"
    /\ init' = [init EXCEPT !.pc = "idle", !.isLoading = FALSE,
                     !.logs = @ \o <<Log("success", <<"SDK initialized successfully!">>)>>]
    /\ sdk' = TRUE
    /\ UNCHANGED <<keys, faults, ecdsaKeyId, mldsaKeyId, stats, kc, km, sg, cm, ex, vs, core>>
    /\ UNCHANGED <<ks, storage, pf, issued>>

\* createKeySDK settles: setIsInitialized(true), onInitialized(sdk).
InitializeCreated ==
    /\ init.pc = "create"
    /\ \E ok \in Outcomes :
        IF ok
        THEN /\ init' = [init EXCEPT !.pc = "idle", !.isLoading = FALSE,
                          !.isInitialized = TRUE,
                          !.logs = @ \o <<Log("success", <<"SDK initialized successfully!">>)>>]
             /\ sdk' = TRUE
             /\ UNCHANGED faults
        ELSE /\ init' = [init EXCEPT !.pc = "idle", !.isLoading = FALSE,
                          !.logs = @ \o <<Log("error",
                              <<"Initialization failed: ", "createKeySDK failed">>)>>]
             /\ faults' = faults + 1
             /\ UNCHANGED sdk
    /\ UNCHANGED <<keys, ecdsaKeyId, mldsaKeyId, stats, kc, km, sg, cm, ex, vs, core>>
    /\ UNCHANGED <<ks, storage, pf, issued>>

\* ----------------------------------------------------- KeyCreationSection
\* The createKey calls that handlers have started and not yet seen settle.
\* The records of the store that the bounds count: those of the demo's
\* agent and the imported ones (the performance test has its own bound).
DemoKeys == Cardinality({k \in KeyIds : keys[k].agent \in {BrowserAgent, ""}})

PendingCreates ==
    (IF kc.pcEcdsa = "create" THEN 1 ELSE 0)
    + (IF kc.pcMldsa = "create" THEN 1 ELSE 0)
    + (IF km.pcRotate = "ecdsa"
       THEN (IF km.mldsaKeyId # NoKey THEN 2 ELSE 1)
       ELSE IF km.pcRotate = "mldsa" THEN 1 ELSE 0)

\* The key store has room for n more records once the pending calls settle.
Room(n) == DemoKeys + PendingCreates + n <= MaxKeys

\* The same for the key creation section.
RoomToCreate == DemoKeys + PendingCreates + 1 <= MaxCreated

\* handleCreateECDSA up to `await sdk.createKey(...)`.
CreateECDSAStart ==
    /\ sdk /\ ~kc.isCreatingEcdsa
    /\ kc.pcEcdsa = "idle"
    /\ RoomToCreate
    /\ kc' = [kc EXCEPT !.isCreatingEcdsa = TRUE, !.pcEcdsa = "create",
                        !.logs = @ \o <<Log("info", <<"Creating ECDSA key...">>)>>]
    /\ UNCHANGED <<keys, faults, appVars, init, km, sg, cm, ex, vs, core>>
    /\ UNCHANGED <<ks, storage, pf, issued>>

\* createKey settles: onKeyCreated(keyId, 'ecdsa'), onStatsUpdate().
CreateECDSADone ==
    /\ kc.pcEcdsa = "create"
    /\ \E ok \in Outcomes :
        LET r == createKey(BrowserAgent, EcdsaSuite, ok) IN
        IF r.ok
        THEN /\ keys' = r.keys
             /\ kc' = [kc EXCEPT !.isCreatingEcdsa = FALSE, !.pcEcdsa = "idle",
                          !.logs = @ \o <<Log("success", <<"ECDSA key created!">>)>>]
             /\ handleKeyCreated(r.keyId, "ecdsa")
             /\ stats' = statsUpdated(keyCounted(stats))
             /\ UNCHANGED faults
        ELSE /\ kc' = [kc EXCEPT !.isCreatingEcdsa = FALSE, !.pcEcdsa = "idle",
                          !.logs = @ \o <<Log("error", <<"Error: ", r.error>>)>>]
             /\ faults' = faults + 1
             /\ UNCHANGED <<keys, ecdsaKeyId, mldsaKeyId, stats>>
    /\ UNCHANGED <<sdk, init, km, sg, cm, ex, vs, core>>
    /\ UNCHANGED <<ks, storage, pf, issued>>

\* The user selects an ML-DSA variant (setMldsaVariant) and clicks:
\* handleCreateMLDSA up to `await sdk.createKey(...)`.  The handler keeps the
\* variant that was selected when the button was clicked.
CreateMLDSAStart ==
    /\ sdk /\ ~kc.isCreatingMldsa
    /\ kc.pcMldsa = "idle"
    /\ RoomToCreate
    /\ \E v \in MldsaSuites :
        kc' = [kc EXCEPT !.mldsaVariant = v,
                         !.isCreatingMldsa = TRUE, !.pcMldsa = "create",
                         !.variant = v,
                         !.logs = @ \o <<Log("info", <<"Creating key...", v>>)>>]
    /\ UNCHANGED <<keys, faults, appVars, init, km, sg, cm, ex, vs, core>>
    /\ UNCHANGED <<ks, storage, pf, issued>>

\* createKey settles: onKeyCreated(keyId, 'mldsa'), onStatsUpdate().
CreateMLDSADone ==
    /\ kc.pcMldsa = "create"
    /\ \E ok \in Outcomes :
        LET r == createKey(BrowserAgent, kc.variant, ok) IN
        IF r.ok
        THEN /\ keys' = r.keys
             /\ kc' = [kc EXCEPT !.isCreatingMldsa = FALSE, !.pcMldsa = "idle",
                          !.variant = "",
                          !.logs = @ \o <<Log("success", <<"ML-DSA key created!">>),
                                          Log("success", <<"This is QUANTUM-RESISTANT!">>)>>]
             /\ handleKeyCreated(r.keyId, "mldsa")
             /\ stats' = statsUpdated(keyCounted(stats))
             /\ UNCHANGED faults
        ELSE /\ kc' = [kc EXCEPT !.isCreatingMldsa = FALSE, !.pcMldsa = "idle",
                          !.variant = "",
                          !.logs = @ \o <<Log("error", <<"Error: ", r.error>>)>>]
             /\ faults' = faults + 1
             /\ UNCHANGED <<keys, ecdsaKeyId, mldsaKeyId, stats>>
    /\ UNCHANGED <<sdk, init, km, sg, cm, ex, vs, core>>
    /\ UNCHANGED <<ks, storage, pf, issued>>

\* --------------------------------------------------- KeyManagementSection
\* hasAnyKey = ecdsaKeyId || mldsaKeyId
hasAnyKey == ecdsaKeyId # NoKey \/ mldsaKeyId # NoKey

\* The suite of the replacement of the tracked ML-DSA key.
RotateMldsaSuite == "ml-dsa-65"

\* rotateCreate with the predecessor retired: the replaced key is made
\* inactive when its replacement is created.
rotateCreateRetiring(suiteId, ok) ==
    LET r == createKey(BrowserAgent, suiteId, ok)
        old == IF suiteId = EcdsaSuite THEN km.ecdsaKeyId ELSE km.mldsaKeyId
    IN  IF r.ok /\ old # NoKey
        THEN [r EXCEPT !.keys = [@ EXCEPT ![old].status = "inactive"]]
        ELSE r

\* The result of the createKey call of a rotation.
rotateCreate(suiteId, ok) == createKey(BrowserAgent, suiteId, ok)

\* handleKeysRotated (App.tsx) and the onStatsUpdate() that follows it,
\* given the identifiers the rotation created (NoKey: none).
keysRotated(newEcdsaKeyId, newMldsaKeyId) ==
    /\ ecdsaKeyId' = IF newEcdsaKeyId # NoKey THEN newEcdsaKeyId ELSE ecdsaKeyId
    /\ mldsaKeyId' = IF newMldsaKeyId # NoKey THEN newMldsaKeyId ELSE mldsaKeyId
    /\ stats' = statsUpdated(
         [stats EXCEPT !.keysCreated =
             @ + (IF newEcdsaKeyId # NoKey THEN 1 ELSE 0)
               + (IF newMldsaKeyId # NoKey THEN 1 ELSE 0)])

\* The log entries of a rotation that created newKeys.
rotateSuccessLogs(newKeys) ==
    <<Log("success", <<"Created new key(s):">>)>>
    \o [i \in 1..Len(newKeys) |-> Log("info", <<"key", "Suite">>)]
    \o <<Log("success", <<"Keys rotated successfully">>)>>

\* A rotation that logs the error and stays where it is, so that the
\* createKey call that failed is made again.
rotateFailedRetries(error) ==
    /\ km' = [km EXCEPT !.logs = @ \o <<Log("error", <<"Error: ", error>>)>>]
    /\ faults' = faults + 1
    /\ UNCHANGED <<keys, ecdsaKeyId, mldsaKeyId, stats>>

\* A handleRotateKeys without its finally block: the error is logged and
\* isRotating stays set.
rotateFailedStaysBusy(error) ==
    /\ km' = [km EXCEPT !.pcRotate = "idle", !.outcome = "failed",
                        !.logs = @ \o <<Log("error", <<"Error: ", error>>)>>]
    /\ faults' = faults + 1
    /\ UNCHANGED <<keys, ecdsaKeyId, mldsaKeyId, stats>>

\* The catch and finally blocks of handleRotateKeys.
rotateFailed(error) ==
    /\ km' = [km EXCEPT !.isRotating = FALSE, !.pcRotate = "idle",
                        !.outcome = "failed",
                        !.logs = @ \o <<Log("error", <<"Error: ", error>>)>>]
    /\ faults' = faults + 1
    /\ UNCHANGED <<keys, ecdsaKeyId, mldsaKeyId, stats>>

\* handleRotateKeys up to its first `await sdk.createKey(...)`.  The handler
\* keeps the ecdsaKeyId and mldsaKeyId of the render it was clicked in.
\* activeBefore remembers the agent's active keys at that moment.
RotateStart ==
    /\ sdk /\ hasAnyKey /\ ~km.isRotating
    /\ km.pcRotate = "idle"
    /\ Room((IF ecdsaKeyId # NoKey THEN 1 ELSE 0) + (IF mldsaKeyId # NoKey THEN 1 ELSE 0))
    /\ km' = [km EXCEPT !.isRotating = TRUE,
                        !.pcRotate = IF ecdsaKeyId # NoKey THEN "ecdsa" ELSE "mldsa",
                        !.ecdsaKeyId = ecdsaKeyId, !.mldsaKeyId = mldsaKeyId,
                        !.newKeys = <<>>, !.newEcdsaKeyId = NoKey, !.newMldsaKeyId = NoKey,
                        !.outcome = "running",
                        !.activeBefore = listKeysForAgent(BrowserAgent, TRUE),
                        !.logs = <<Log("info", <<"Rotating keys for BrowserAgent...">>),
                                   Log("info", <<"Creating new keys...">>)>>]
    /\ UNCHANGED <<keys, faults, appVars, init, kc, sg, cm, ex, vs, core>>
    /\ UNCHANGED <<ks, storage, pf, issued>>

\* The createKey for the ECDSA key settles; without a tracked ML-DSA key the
\* handler runs to its end.
RotateEcdsa ==
    /\ km.pcRotate = "ecdsa"
    /\ \E ok \in Outcomes :
        LET r == rotateCreate(EcdsaSuite, ok) IN
        IF ~r.ok THEN rotateFailed(r.error)
        ELSE /\ keys' = r.keys
             /\ UNCHANGED faults
             /\ IF km.mldsaKeyId # NoKey
                THEN /\ km' = [km EXCEPT !.pcRotate = "mldsa",
                                  !.newKeys = Append(@, r.keyId),
                                  !.newEcdsaKeyId = r.keyId]
                     /\ UNCHANGED <<ecdsaKeyId, mldsaKeyId, stats>>
                ELSE /\ km' = [km EXCEPT !.pcRotate = "idle", !.isRotating = FALSE,
                                  !.newKeys = Append(@, r.keyId),
                                  !.newEcdsaKeyId = r.keyId,
                                  !.outcome = "ok",
                                  !.logs = @ \o rotateSuccessLogs(Append(km.newKeys, r.keyId))]
                     /\ keysRotated(r.keyId, NoKey)
    /\ UNCHANGED <<sdk, init, kc, sg, cm, ex, vs, core>>
    /\ UNCHANGED <<ks, storage, pf, issued>>

\* The createKey for the ML-DSA key settles and the handler runs to its end.
RotateMldsa ==
    /\ km.pcRotate = "mldsa"
    /\ \E ok \in Outcomes :
        LET r == rotateCreate(RotateMldsaSuite, ok) IN
        IF ~r.ok THEN rotateFailed(r.error)
        ELSE /\ keys' = r.keys
             /\ UNCHANGED faults
             /\ km' = [km EXCEPT !.pcRotate = "idle", !.isRotating = FALSE,
                          !.newKeys = Append(@, r.keyId),
                          !.newMldsaKeyId = r.keyId,
                          !.outcome = "ok",
                          !.logs = @ \o rotateSuccessLogs(Append(km.newKeys, r.keyId))]
             /\ keysRotated(km.newEcdsaKeyId, r.keyId)
    /\ UNCHANGED <<sdk, init, kc, sg, cm, ex, vs, core>>
    /\ UNCHANGED <<ks, storage, pf, issued>>

\* No profile shown yet.
NoProfile == [activeCount |-> 0, hasEcdsa |-> FALSE, hasMldsa |-> FALSE]

\* The five log lines handleListKeys writes for the index-th key of a list.
RECURSIVE keyLines(_, _)
keyLines(list, index) ==
    IF index > Len(list) THEN <<>>
    ELSE LET key == keys[list[index]]
         IN  << Log("info", <<ToString(index), ". ", ToString(key.id)>>),
                Log("info", <<"Suite: ", key.suite>>),
                Log("info", <<"Usage: ", IF "sign" \in key.usage THEN "sign, verify" ELSE "verify">>),
                Log("info", <<"Status: ", key.status>>),
                Log("info", <<"Public Key Size: ", ToString(key.length), " bytes">>) >>
             \o keyLines(list, index + 1)

\* handleListKeys up to `await sdk.listKeysForAgent('BrowserAgent')`.
ListKeysStart ==
    /\ sdk /\ hasAnyKey /\ ~km.isListing
    /\ km.pcList = "idle"
    /\ km' = [km EXCEPT !.isListing = TRUE, !.pcList = "list", !.listed = <<>>,
                        !.logs = <<Log("info", <<"Listing keys for BrowserAgent...">>)>>]
    /\ UNCHANGED <<keys, faults, appVars, init, kc, sg, cm, ex, vs, core>>
    /\ UNCHANGED <<ks, storage, pf, issued>>

\* listKeysForAgent settles (activeOnly is left out, so every record of the
\* agent is listed); the handler logs the count and each key, and ends.
ListKeysSettled ==
    /\ km.pcList = "list"
    /\ LET list == listKeysForAgent(BrowserAgent, FALSE)
       IN  km' = [km EXCEPT !.isListing = FALSE, !.pcList = "idle", !.listed = list,
                            !.logs = @ \o <<Log("success", <<"Found ", ToString(Len(list)), " key(s):">>)>>
                                       \o keyLines(list, 1)]
    /\ UNCHANGED <<keys, faults, appVars, init, kc, sg, cm, ex, vs, core>>
    /\ UNCHANGED <<ks, storage, pf, issued>>

\* keys.filter((k) => k.meta.status === 'active')
RECURSIVE filterActive(_)
filterActive(list) ==
    IF list = <<>> THEN <<>>
    ELSE IF keys[Head(list)].status = "active"
         THEN <<Head(list)>> \o filterActive(Tail(list))
         ELSE filterActive(Tail(list))

\* A profile that reports the classical category whenever an ECDSA key is
\* active, whatever else is.
profileLinesEcdsaFirst(hasEcdsa, hasMldsa) ==
    IF hasEcdsa
    THEN <<Log("info", <<"Classical only: Standard ECDSA">>)>>
    ELSE IF hasMldsa
    THEN <<Log("success", <<"Post-quantum only: Future-ready!">>)>>
    ELSE <<Log("info", <<"No active keys">>)>>

\* The log lines of the four branches of handleGetProfile.
profileLines(hasEcdsa, hasMldsa) ==
    IF hasEcdsa /\ hasMldsa
    THEN << Log("success", <<"Hybrid mode: Maximum security!">>),
            Log("info", <<"Classical ECDSA for current compatibility">>),
            Log("info", <<"Post-quantum ML-DSA for future-proofing">>) >>
    ELSE IF hasMldsa
    THEN <<Log("success", <<"Post-quantum only: Future-ready!">>)>>
    ELSE IF hasEcdsa
    THEN <<Log("info", <<"Classical only: Standard ECDSA">>)>>
    ELSE <<Log("info", <<"No active keys">>)>>

\* handleGetProfile up to `await sdk.listKeysForAgent('BrowserAgent', true)`.
GetProfileStart ==
    /\ sdk /\ hasAnyKey /\ ~km.isGettingProfile
    /\ km.pcProfile = "idle"
    /\ km' = [km EXCEPT !.isGettingProfile = TRUE, !.pcProfile = "list",
                        !.profile = NoProfile,
                        !.logs = <<Log("info", <<"Getting key profile...">>)>>]
    /\ UNCHANGED <<keys, faults, appVars, init, kc, sg, cm, ex, vs, core>>
    /\ UNCHANGED <<ks, storage, pf, issued>>

\* listKeysForAgent settles; the handler counts the active keys, looks for
\* the suites among them, logs the profile and ends.
GetProfileSettled ==
    /\ km.pcProfile = "list"
    /\ LET activeKeys == filterActive(listKeysForAgent(BrowserAgent, TRUE))
           hasEcdsa == \E i \in 1..Len(activeKeys) : keys[activeKeys[i]].suite = EcdsaSuite
           hasMldsa == \E i \in 1..Len(activeKeys) : StartsWithMldsa(keys[activeKeys[i]].suite)
       IN  km' = [km EXCEPT
                  !.isGettingProfile = FALSE, !.pcProfile = "idle",
                  !.profile = [activeCount |-> Len(activeKeys),
                               hasEcdsa |-> hasEcdsa, hasMldsa |-> hasMldsa],
                  !.logs = @ \o << Log("success", <<"Active Keys Profile:">>),
                                   Log("info", <<"Total active keys: ", ToString(Len(activeKeys))>>) >>
                             \o profileLines(hasEcdsa, hasMldsa)]
    /\ UNCHANGED <<keys, faults, appVars, init, kc, sg, cm, ex, vs, core>>
    /\ UNCHANGED <<ks, storage, pf, issued>>

\* --------------------------------------------------------- SigningSection
\* The signing handlers stop once the counter has reached its bound.
MaySign == stats.signaturesCreated < MaxSigned

\* One SDK call a handler made: the operation, its key (for hybrid signing
\* its place in the order, 1 or 2) and whether it succeeded.
Call(op, index, keyId, ok) == [op |-> op, index |-> index, keyId |-> keyId, ok |-> ok]

SignAndVerifyMessage == "Hello from the browser!"
SignWithBothMessage == "Hybrid signature test message"

\* The verification of handleSignAndVerify: same key, message and signature.
signAndVerifyCheck(keyId, message, signature) ==
    verifySignature(keyId, message, signature)

\* handleSignAndVerify up to `await sdk.signWithKey(...)`;
\* keyId = ecdsaKeyId || mldsaKeyId.
SignAndVerifyStart ==
    /\ sdk /\ hasAnyKey /\ ~sg.isSigning
    /\ sg.pcSV = "idle"
    /\ MaySign
    /\ sg' = [sg EXCEPT !.isSigning = TRUE, !.pcSV = "sign",
                        !.svKeyId = IF ecdsaKeyId # NoKey THEN ecdsaKeyId ELSE mldsaKeyId,
                        !.svSignature = NoSignature,
                        !.logs = <<Log("info", <<"Signing message with key...">>)>>]
    /\ UNCHANGED <<keys, faults, appVars, init, kc, km, cm, ex, vs, core>>
    /\ UNCHANGED <<ks, storage, pf, issued>>

\* signWithKey settles; the handler goes on to `await sdk.verifySignature`.
SignAndVerifySigned ==
    /\ sg.pcSV = "sign"
    /\ \E ok \in Outcomes :
        LET r == signWithKey(sg.svKeyId, SignAndVerifyMessage, ok) IN
        IF r.ok
        THEN /\ sg' = [sg EXCEPT !.pcSV = "verify", !.svSignature = r.signature,
                          !.logs = @ \o <<Log("success", <<"Signature created">>),
                                          Log("info", <<"Verifying signature...">>)>>]
             /\ UNCHANGED faults
        ELSE /\ sg' = [sg EXCEPT !.pcSV = "idle", !.isSigning = FALSE,
                          !.svKeyId = NoKey, !.svSignature = NoSignature,
                          !.logs = @ \o <<Log("error", <<"Error: ", r.error>>)>>]
             /\ faults' = faults + 1
    /\ UNCHANGED <<keys, appVars, init, kc, km, cm, ex, vs, core>>
    /\ UNCHANGED <<ks, storage, pf, issued>>

\* verifySignature settles, onStatsUpdate(), and the handler ends.
SignAndVerifyVerified ==
    /\ sg.pcSV = "verify"
    /\ LET r == signAndVerifyCheck(sg.svKeyId, SignAndVerifyMessage, sg.svSignature) IN
        IF r.ok
        THEN /\ sg' = [sg EXCEPT !.pcSV = "idle", !.isSigning = FALSE,
                          !.svKeyId = NoKey, !.svSignature = NoSignature,
                          !.logs = @ \o <<IF r.valid
                                          THEN Log("success", <<"Signature verified">>)
                                          ELSE Log("error", <<"Signature verification failed!">>)>>]
             /\ stats' = statsUpdated(stats)
        ELSE /\ sg' = [sg EXCEPT !.pcSV = "idle", !.isSigning = FALSE,
                          !.svKeyId = NoKey, !.svSignature = NoSignature,
                          !.logs = @ \o <<Log("error", <<"Error: ", r.error>>)>>]
             /\ UNCHANGED stats
    /\ UNCHANGED <<keys, faults, sdk, ecdsaKeyId, mldsaKeyId, init, kc, km, cm, ex, vs, core>>
    /\ UNCHANGED <<ks, storage, pf, issued>>

\* hasBothKeys = ecdsaKeyId && mldsaKeyId
hasBothKeys == ecdsaKeyId # NoKey /\ mldsaKeyId # NoKey

\* signWithBothFailed with the error of the first member recorded and the
\* handler going on to the second member.
signWithBothFailedGoesOn(index, keyId, error) ==
    /\ sg' = [sg EXCEPT !.pcBoth = IF index = 1 THEN "mldsa" ELSE "idle",
                        !.isSigningBoth = (index = 1),
                        !.bothOutcome = IF index = 1 THEN "running" ELSE "failed",
                        !.bothCalls = Append(@, Call("signWithKey", index, keyId, FALSE)),
                        !.logs = @ \o <<Log("error", <<"Error: ", error>>)>>]
    /\ faults' = faults + 1
    /\ UNCHANGED stats

\* The catch and finally blocks of handleSignWithBoth, after the sign call
\* of the key at place index failed.
signWithBothFailed(index, keyId, error) ==
    /\ sg' = [sg EXCEPT !.pcBoth = "idle", !.isSigningBoth = FALSE,
                        !.bothOutcome = "failed",
                        !.bothCalls = Append(@, Call("signWithKey", index, keyId, FALSE)),
                        !.logs = @ \o <<Log("error", <<"Error: ", error>>)>>]
    /\ faults' = faults + 1
    /\ UNCHANGED stats

\* handleSignWithBoth up to its first `await sdk.signWithKey(ecdsaKeyId, ...)`.
SignWithBothStart ==
    /\ sdk /\ hasBothKeys /\ ~sg.isSigningBoth
    /\ sg.pcBoth = "idle"
    /\ MaySign
    /\ sg' = [sg EXCEPT !.isSigningBoth = TRUE, !.pcBoth = "ecdsa",
                        !.ecdsaKeyId = ecdsaKeyId, !.mldsaKeyId = mldsaKeyId,
                        !.ecdsaSig = NoSignature, !.mldsaSig = NoSignature,
                        !.bothOutcome = "running", !.bothCalls = <<>>,
                        !.logs = <<Log("info", <<"Creating signatures with both algorithms...">>),
                                   Log("info", <<"ECDSA Signing...">>)>>]
    /\ UNCHANGED <<keys, faults, appVars, init, kc, km, cm, ex, vs, core>>
    /\ UNCHANGED <<ks, storage, pf, issued>>

\* The ECDSA signWithKey settles; the handler goes on to the ML-DSA one.
SignWithBothEcdsa ==
    /\ sg.pcBoth = "ecdsa"
    /\ \E ok \in Outcomes :
        LET r == signWithKey(sg.ecdsaKeyId, SignWithBothMessage, ok) IN
        IF r.ok
        THEN /\ sg' = [sg EXCEPT !.pcBoth = "mldsa", !.ecdsaSig = r.signature,
                          !.bothCalls = Append(@, Call("signWithKey", 1, sg.ecdsaKeyId, TRUE)),
                          !.logs = @ \o <<Log("success", <<"ECDSA: ", "time", "bytes">>),
                                          Log("info", <<"ML-DSA Signing...">>)>>]
             /\ UNCHANGED <<faults, stats>>
        ELSE signWithBothFailed(1, sg.ecdsaKeyId, r.error)
    /\ UNCHANGED <<keys, sdk, ecdsaKeyId, mldsaKeyId, init, kc, km, cm, ex, vs, core>>
    /\ UNCHANGED <<ks, storage, pf, issued>>

\* The ML-DSA signWithKey settles, onStatsUpdate(), and the handler ends.
SignWithBothMldsa ==
    /\ sg.pcBoth = "mldsa"
    /\ \E ok \in Outcomes :
        LET r == signWithKey(sg.mldsaKeyId, SignWithBothMessage, ok) IN
        IF r.ok
        THEN /\ sg' = [sg EXCEPT !.pcBoth = "idle", !.isSigningBoth = FALSE,
                          !.mldsaSig = r.signature,
                          !.bothOutcome = "ok",
                          !.bothCalls = Append(@, Call("signWithKey", 2, sg.mldsaKeyId, TRUE)),
                          !.logs = @ \o <<Log("success", <<"ML-DSA: ", "time", "bytes">>),
                                          Log("info", <<"Comparison:">>)>>]
             /\ stats' = statsUpdated(stats)
             /\ UNCHANGED faults
        ELSE signWithBothFailed(2, sg.mldsaKeyId, r.error)
    /\ UNCHANGED <<keys, sdk, ecdsaKeyId, mldsaKeyId, init, kc, km, cm, ex, vs, core>>
    /\ UNCHANGED <<ks, storage, pf, issued>>

\* --------------------------------------------------- CustomMessageSection
\* The texts the textarea holds: empty, blank, or a typed message.
TypedMessages == {"", " ", "typed"}

\* message.trim()
Trim(message) == IF message = " " THEN "" ELSE message

\* hasRequiredKeys(), for the selected algorithm
hasRequiredKeys(selectedAlgorithm) ==
    CASE selectedAlgorithm = "ecdsa" -> ecdsaKeyId # NoKey
      [] selectedAlgorithm = "mldsa" -> mldsaKeyId # NoKey
      [] OTHER -> ecdsaKeyId # NoKey /\ mldsaKeyId # NoKey

\* Whether the algorithm button a can be clicked (the selected one need not be).
selectable(a) ==
    \/ a = cm.selectedAlgorithm
    \/ /\ a \in {"ecdsa", "both"} => ecdsaKeyId # NoKey
       /\ a \in {"mldsa", "both"} => mldsaKeyId # NoKey

\* The condition of the `Sign with ECDSA` block, for a handler run c.
signsWithEcdsa(c) == c.algorithm \in {"ecdsa", "both"} /\ c.ecdsaKeyId # NoKey

\* The condition of the `Sign with ML-DSA` block, for a handler run c.
signsWithMldsa(c) == c.algorithm \in {"mldsa", "both"} /\ c.mldsaKeyId # NoKey

\* signMessageCheck reading the message from the textarea state, which a
\* later render has replaced, instead of the bytes that were signed.
signMessageCheckStale(keyId, message, signature) ==
    verifySignature(keyId, "", signature)

\* The verification of handleSignMessage: same key, message and signature.
signMessageCheck(keyId, message, signature) ==
    verifySignature(keyId, message, signature)

\* The end of a handleSignMessage run c that did not throw: the comparison,
\* setSignatures(newSignatures), onStatsUpdate() and the finally block.
signMessageFinished(c) ==
    /\ cm' = [c EXCEPT !.pc = "idle", !.isSigning = FALSE, !.outcome = "ok",
                       !.signatures = c.newSignatures,
                       !.newSignatures = [ecdsa |-> NoSignature, mldsa |-> NoSignature],
                       !.ecdsaKeyId = NoKey, !.mldsaKeyId = NoKey,
                       !.algorithm = "", !.text = "",
                       !.logs = @ \o (IF c.newSignatures.ecdsa # NoSignature
                                         /\ c.newSignatures.mldsa # NoSignature
                                      THEN <<Log("info", <<"Algorithm Comparison:">>)>>
                                      ELSE <<>>)]
    /\ stats' = statsUpdated(stats)

\* The catch and finally blocks of handleSignMessage after the call failed.
signMessageFailed(call, error) ==
    /\ cm' = [cm EXCEPT !.pc = "idle", !.isSigning = FALSE, !.outcome = "failed",
                        !.newSignatures = [ecdsa |-> NoSignature, mldsa |-> NoSignature],
                        !.ecdsaKeyId = NoKey, !.mldsaKeyId = NoKey,
                        !.algorithm = "", !.text = "",
                        !.calls = Append(@, call),
                        !.logs = @ \o <<Log("error", <<"Error: ", error>>)>>]
    /\ UNCHANGED stats

\* The user types a message (setMessage), selects an algorithm
\* (setSelectedAlgorithm) and clicks: handleSignMessage up to its first
\* `await sdk.signWithKey(...)`.
SignMessageStart ==
    /\ sdk /\ ~cm.isSigning
    /\ cm.pc = "idle"
    /\ MaySign
    /\ \E m \in TypedMessages, a \in {"ecdsa", "mldsa", "both"} :
        /\ selectable(a)
        /\ Trim(m) # "" /\ hasRequiredKeys(a)
        /\ LET c == [cm EXCEPT !.message = m, !.selectedAlgorithm = a,
                               !.ecdsaKeyId = ecdsaKeyId, !.mldsaKeyId = mldsaKeyId,
                               !.algorithm = a, !.text = m]
           IN  cm' = [c EXCEPT !.isSigning = TRUE,
                         !.pc = IF signsWithEcdsa(c) THEN "signEcdsa" ELSE "signMldsa",
                         !.signatures = [ecdsa |-> NoSignature, mldsa |-> NoSignature],
                         !.newSignatures = [ecdsa |-> NoSignature, mldsa |-> NoSignature],
                         !.calls = <<>>, !.outcome = "running",
                         !.logs = <<Log("info", <<"Message: ", m>>),
                                    IF signsWithEcdsa(c)
                                    THEN Log("info", <<"Signing with ECDSA...">>)
                                    ELSE Log("info", <<"Signing with ML-DSA (Post-Quantum)...">>)>>]
    /\ UNCHANGED <<keys, faults, appVars, init, kc, km, sg, ex, vs, core>>
    /\ UNCHANGED <<ks, storage, pf, issued>>

\* The ECDSA signWithKey settles; the handler goes on to verify.
SignMessageEcdsaSigned ==
    /\ cm.pc = "signEcdsa"
    /\ \E ok \in Outcomes :
        LET r == signWithKey(cm.ecdsaKeyId, cm.text, ok) IN
        IF r.ok
        THEN /\ cm' = [cm EXCEPT !.pc = "verifyEcdsa",
                          !.newSignatures.ecdsa = r.signature,
                          !.calls = Append(@, Call("signWithKey", 1, cm.ecdsaKeyId, TRUE)),
                          !.logs = @ \o <<Log("success", <<"ECDSA signature created">>)>>]
             /\ UNCHANGED <<faults, stats>>
        ELSE /\ signMessageFailed(Call("signWithKey", 1, cm.ecdsaKeyId, FALSE), r.error)
             /\ faults' = faults + 1
    /\ UNCHANGED <<keys, sdk, ecdsaKeyId, mldsaKeyId, init, kc, km, sg, ex, vs, core>>
    /\ UNCHANGED <<ks, storage, pf, issued>>

\* The ECDSA verifySignature settles; the handler goes on to the ML-DSA
\* block, or to its end.
SignMessageEcdsaVerified ==
    /\ cm.pc = "verifyEcdsa"
    /\ LET r == signMessageCheck(cm.ecdsaKeyId, cm.text, cm.newSignatures.ecdsa)
           c == [cm EXCEPT
                   !.calls = Append(@, Call("verifySignature", 1, cm.ecdsaKeyId, TRUE)),
                   !.logs = @ \o <<IF r.valid
                                   THEN Log("success", <<"Verification: ", "PASSED">>)
                                   ELSE Log("error", <<"Verification: ", "FAILED">>)>>]
       IN  IF ~r.ok
           THEN signMessageFailed(Call("verifySignature", 1, cm.ecdsaKeyId, FALSE), r.error)
           ELSE IF signsWithMldsa(cm)
           THEN /\ cm' = [c EXCEPT !.pc = "signMldsa",
                             !.logs = @ \o <<Log("info", <<"Signing with ML-DSA (Post-Quantum)...">>)>>]
                /\ UNCHANGED stats
           ELSE signMessageFinished(c)
    /\ UNCHANGED <<keys, faults, sdk, ecdsaKeyId, mldsaKeyId, init, kc, km, sg, ex, vs, core>>
    /\ UNCHANGED <<ks, storage, pf, issued>>

\* The ML-DSA signWithKey settles; the handler goes on to verify.
SignMessageMldsaSigned ==
    /\ cm.pc = "signMldsa"
    /\ \E ok \in Outcomes :
        LET r == signWithKey(cm.mldsaKeyId, cm.text, ok) IN
        IF r.ok
        THEN /\ cm' = [cm EXCEPT !.pc = "verifyMldsa",
                          !.newSignatures.mldsa = r.signature,
                          !.calls = Append(@, Call("signWithKey", 2, cm.mldsaKeyId, TRUE)),
                          !.logs = @ \o <<Log("success", <<"ML-DSA signature created">>)>>]
             /\ UNCHANGED <<faults, stats>>
        ELSE /\ signMessageFailed(Call("signWithKey", 2, cm.mldsaKeyId, FALSE), r.error)
             /\ faults' = faults + 1
    /\ UNCHANGED <<keys, sdk, ecdsaKeyId, mldsaKeyId, init, kc, km, sg, ex, vs, core>>
    /\ UNCHANGED <<ks, storage, pf, issued>>

\* The ML-DSA verifySignature settles and the handler runs to its end.
SignMessageMldsaVerified ==
    /\ cm.pc = "verifyMldsa"
    /\ LET r == signMessageCheck(cm.mldsaKeyId, cm.text, cm.newSignatures.mldsa)
           c == [cm EXCEPT
                   !.calls = Append(@, Call("verifySignature", 2, cm.mldsaKeyId, TRUE)),
                   !.logs = @ \o <<IF r.valid
                                   THEN Log("success", <<"Verification: ", "PASSED">>)
                                   ELSE Log("error", <<"Verification: ", "FAILED">>)>>]
       IN  IF ~r.ok
           THEN signMessageFailed(Call("verifySignature", 2, cm.mldsaKeyId, FALSE), r.error)
           ELSE signMessageFinished(c)
    /\ UNCHANGED <<keys, faults, sdk, ecdsaKeyId, mldsaKeyId, init, kc, km, sg, ex, vs, core>>
    /\ UNCHANGED <<ks, storage, pf, issued>>

\* ------------------------------------------------------- KeyExportSection
\* Hexadecimal text is a sequence of characters: 0..15 are the hexadecimal
\* digits, NotHex is any other character.
HexDigits == 0..15
NotHex == 16

\* The default of arrayToHex's length parameter.
ArrayToHexDefaultLength == 32

\* arrayToHex(arr, length): two digits for each of the first `length` bytes.
arrayToHex(arr, length) ==
    LET n == IF length < Len(arr) THEN length ELSE Len(arr)
    IN  [i \in 1..(2 * n) |->
            IF i % 2 = 1 THEN arr[(i + 1) \div 2] \div 16 ELSE arr[i \div 2] % 16]

\* No exported key (an unset field of publicKeys).
NoHex == <<>>

\* The end of a handleExportPublicKeys run c that did not throw.
exportFinished(c) ==
    ex' = [c EXCEPT !.pc = "idle", !.publicKeys = c.keys,
                    !.ecdsaKeyId = NoKey, !.mldsaKeyId = NoKey,
                    !.keys = [ecdsa |-> NoHex, mldsa |-> NoHex],
                    !.logs = @ \o <<Log("success", <<"Public keys exported successfully">>)>>]

\* The catch block of handleExportPublicKeys.
exportFailed(error) ==
    ex' = [ex EXCEPT !.pc = "idle",
                     !.ecdsaKeyId = NoKey, !.mldsaKeyId = NoKey,
                     !.keys = [ecdsa |-> NoHex, mldsa |-> NoHex],
                     !.logs = @ \o <<Log("error", <<"Error: ", error>>)>>]

\* handleExportPublicKeys up to its first `await sdk.getPublicKey(...)`.
\* The button has no busy flag; one run at a time is modelled (a click
\* while a run is in flight is not).
ExportStart ==
    /\ sdk /\ hasAnyKey
    /\ ex.pc = "idle"
    /\ ex' = [ex EXCEPT !.pc = IF ecdsaKeyId # NoKey THEN "ecdsa" ELSE "mldsa",
                        !.ecdsaKeyId = ecdsaKeyId, !.mldsaKeyId = mldsaKeyId,
                        !.publicKeys = [ecdsa |-> NoHex, mldsa |-> NoHex],
                        !.keys = [ecdsa |-> NoHex, mldsa |-> NoHex],
                        !.exported = [ecdsa |-> NoKey, mldsa |-> NoKey],
                        !.logs = <<Log("info", <<"Exporting public key...">>)>>]
    /\ UNCHANGED <<keys, faults, appVars, init, kc, km, sg, cm, vs, core>>
    /\ UNCHANGED <<ks, storage, pf, issued>>

\* getPublicKey(ecdsaKeyId) settles: keys.ecdsa = arrayToHex(pubKey).
ExportEcdsa ==
    /\ ex.pc = "ecdsa"
    /\ LET r == getPublicKey(ex.ecdsaKeyId)
           c == [ex EXCEPT !.keys.ecdsa = arrayToHex(r.bytes, ArrayToHexDefaultLength),
                           !.exported.ecdsa = ex.ecdsaKeyId,
                           !.logs = @ \o <<Log("success", <<"ECDSA Public Key:">>)>>]
       IN  IF ~r.ok THEN exportFailed(r.error)
           ELSE IF ex.mldsaKeyId # NoKey
           THEN ex' = [c EXCEPT !.pc = "mldsa",
                          !.logs = @ \o <<Log("info", <<"Exporting public key...">>)>>]
           ELSE exportFinished(c)
    /\ UNCHANGED <<keys, faults, appVars, init, kc, km, sg, cm, vs, core>>
    /\ UNCHANGED <<ks, storage, pf, issued>>

\* getPublicKey(mldsaKeyId) settles: keys.mldsa = arrayToHex(pubKey).
ExportMldsa ==
    /\ ex.pc = "mldsa"
    /\ LET r == getPublicKey(ex.mldsaKeyId)
           c == [ex EXCEPT !.keys.mldsa = arrayToHex(r.bytes, ArrayToHexDefaultLength),
                           !.exported.mldsa = ex.mldsaKeyId,
                           !.logs = @ \o <<Log("success", <<"ML-DSA Public Key:">>)>>]
       IN  IF ~r.ok THEN exportFailed(r.error) ELSE exportFinished(c)
    /\ UNCHANGED <<keys, faults, appVars, init, kc, km, sg, cm, vs, core>>
    /\ UNCHANGED <<ks, storage, pf, issued>>

\* handleDownloadKeys: the button is there once a key is exported; the
\* file holds the export time and publicKeys.
DownloadKeys ==
    /\ ex.publicKeys.ecdsa # NoHex \/ ex.publicKeys.mldsa # NoHex
    /\ Len(ex.downloaded) < MaxDownloads
    /\ \E now \in Times :
          ex' = [ex EXCEPT
                   !.downloaded = Append(@, [exported |-> now, keys |-> ex.publicKeys]),
                   !.logs = @ \o <<Log("success", <<"Public keys downloaded as JSON">>)>>]
    /\ UNCHANGED <<keys, faults, appVars, init, kc, km, sg, cm, vs, core>>
    /\ UNCHANGED <<ks, storage, pf, issued>>

\* ------------------------------------------- SignatureVerificationSection
\* hexToUint8Array(hex): the characters that are no hexadecimal digits are
\* dropped, and every two digits make a byte; a last single digit is lost.
hexToUint8Array(hex) ==
    LET cleanHex == SelectSeq(hex, LAMBDA c : c \in HexDigits)
    IN  [i \in 1..(Len(cleanHex) \div 2) |-> cleanHex[2 * i - 1] * 16 + cleanHex[2 * i]]

\* What a user pastes into the public key field: the full hexadecimal text
\* of an ECDSA key, and the texts the export section shows for an ECDSA key
\* and for an ML-DSA-65 key.
PublicKeyHexSamples ==
    { arrayToHex(PublicKeyBytes(33, 1), 33),
      arrayToHex(PublicKeyBytes(33, 1), ArrayToHexDefaultLength),
      arrayToHex(PublicKeyBytes(1952, 2), ArrayToHexDefaultLength) }

\* What a user pastes into the signature field: 64 bytes in hexadecimal,
\* and a short text with a character that is no digit.
SignatureHexSamples ==
    { arrayToHex([i \in 1..64 |-> i], 64), <<10, 11, NotHex, 12>> }

\* The message typed into the form (handleLoadExample's).
VerifyMessages == {"Hello from the browser!"}

\* A signature given as bytes: one of its length that no key pair of the
\* key store has produced.
signatureOfBytes(bytes) ==
    [length |-> Len(bytes), suite |-> "", material |-> 0, message |-> ""]

\* The suite argument handleVerifySignature passes to sdk.importPublicKey:
\* the form's algorithm value itself.
importSuiteRegistered(algorithm) ==
    IF algorithm = "ecdsa" THEN EcdsaSuite ELSE "ml-dsa-65"

importSuite(algorithm) == algorithm

\* The catch and finally blocks of handleVerifySignature.
verifyFailedGoesOn(call, error) ==
    vs' = [vs EXCEPT !.pc = "verify", !.calls = Append(@, call),
                     !.logs = @ \o <<Log("error", <<"Verification error: ", error>>)>>]

verifyFailed(call, error) ==
    vs' = [vs EXCEPT !.pc = "idle", !.isVerifying = FALSE,
                     !.verificationResult = "invalid",
                     !.message = "", !.algorithm = "",
                     !.publicKey = <<>>, !.signature = <<>>, !.keyId = NoKey,
                     !.calls = Append(@, call),
                     !.logs = @ \o <<Log("error", <<"Verification error: ", error>>)>>]

\* The user fills in the form and clicks: handleVerifySignature up to
\* `await sdk.importPublicKey(publicKey, algorithm)`.
VerifySignatureStart ==
    /\ sdk /\ ~vs.isVerifying
    /\ vs.pc = "idle"
    /\ \E message \in VerifyMessages, publicKeyHex \in PublicKeyHexSamples,
          signatureHex \in SignatureHexSamples, algorithm \in FormAlgorithms :
          LET publicKey == hexToUint8Array(publicKeyHex)
              signature == hexToUint8Array(signatureHex)
          IN  vs' = [vs EXCEPT
                  !.pc = "import", !.isVerifying = TRUE,
                  !.verificationResult = "null",
                  !.message = message, !.algorithm = algorithm,
                  !.publicKey = publicKey, !.signature = signature,
                  !.keyId = NoKey, !.calls = <<>>,
                  !.logs = << Log("info", <<"Starting signature verification...">>),
                              Log("info", <<"Message: ", message>>),
                              Log("info", <<"Public key: ", ToString(Len(publicKey)), " bytes">>),
                              Log("info", <<"Signature: ", ToString(Len(signature)), " bytes">>),
                              Log("info", <<"Importing public key...", algorithm>>) >>]
    /\ UNCHANGED <<keys, faults, appVars, init, kc, km, sg, cm, ex, core>>
    /\ UNCHANGED <<ks, storage, pf, issued>>

\* The pending SDK call of handleVerifySignature settles: importPublicKey,
\* and after it verifySignature; the handler runs on to its next await or
\* to its end.
VerifySignatureSettled ==
    /\ vs.pc \in {"import", "verify"}
    /\ IF vs.pc = "import"
       THEN LET r == importPublicKey(vs.publicKey, importSuite(vs.algorithm))
                call == [op |-> "importPublicKey", ok |-> r.ok, length |-> Len(vs.publicKey)]
            IN  /\ keys' = r.keys
                /\ IF ~r.ok THEN verifyFailed(call, r.error)
                   ELSE vs' = [vs EXCEPT
                           !.pc = "verify", !.keyId = r.keyId,
                           !.calls = Append(@, call),
                           !.logs = @ \o << Log("success", <<"Key imported with ID: ", ToString(r.keyId)>>),
                                            Log("info", <<"Verifying signature...">>) >>]
       ELSE LET r == verifySignature(vs.keyId, vs.message, signatureOfBytes(vs.signature))
                call == [op |-> "verifySignature", ok |-> r.ok, length |-> Len(vs.publicKey)]
            IN  /\ UNCHANGED keys
                /\ IF ~r.ok THEN verifyFailed(call, r.error)
                   ELSE vs' = [vs EXCEPT
                           !.pc = "idle", !.isVerifying = FALSE,
                           !.verificationResult = IF r.valid THEN "valid" ELSE "invalid",
                           !.message = "", !.algorithm = "",
                           !.publicKey = <<>>, !.signature = <<>>, !.keyId = NoKey,
                           !.calls = Append(@, call),
                           !.logs = @ \o << Log(IF r.valid THEN "success" ELSE "error",
                                                <<IF r.valid THEN "SIGNATURE VALID" ELSE "SIGNATURE INVALID">>),
                                            Log("info", <<"Algorithm: ", vs.algorithm>>) >>]
    /\ UNCHANGED <<faults, appVars, init, kc, km, sg, cm, ex, core>>
    /\ UNCHANGED <<ks, storage, pf, issued>>

\* ------------------------------------------------------ KeyStorageSection
\* localStorage.getItem(STORAGE_KEY) when nothing is stored (null).
NoItem == [item |-> FALSE, text |-> <<>>]

\* JSON.stringify of a list of StoredKeyData and JSON.parse of the text:
\* the entries are records of strings, which the JSON text keeps in order
\* and in full; the text is held as the list it spells.
JSONstringify(value) == [item |-> TRUE, text |-> value]
JSONparse(stored) == stored.text

\* The hexadecimal text the export section makes of a key (arrayToHex with
\* its default length).
toHexStringAsExport(publicKey) == arrayToHex(publicKey, ArrayToHexDefaultLength)

\* Array.from(publicKey).map((b) => b.toString(16).padStart(2, '0')).join('')
toHexString(publicKey) ==
    [i \in 1..(2 * Len(publicKey)) |->
        IF i % 2 = 1 THEN publicKey[(i + 1) \div 2] \div 16 ELSE publicKey[i \div 2] % 16]

\* An entry that also holds the key record of the SDK, private handle
\* included.
StoredKeyDataWithRecord(id, algorithm, publicKey, created) ==
    [id |-> id, algorithm |-> algorithm, publicKey |-> publicKey, created |-> created,
     record |-> IF id \in KeyIds THEN keys[id] ELSE keys]

\* The StoredKeyData pushed for a key.
StoredKeyData(id, algorithm, publicKey, created) ==
    [id |-> id, algorithm |-> algorithm, publicKey |-> publicKey, created |-> created]

\* loadStoredKeys, run in a section whose state is c, over the stored item.
loadStoredKeys(c, stored) ==
    IF stored.item
    THEN [c EXCEPT !.storedKeys = JSONparse(stored),
                   !.logs = @ \o <<Log("success", <<"Loaded ", ToString(Len(JSONparse(stored))),
                                                    " key(s) from browser storage">>)>>]
    ELSE [c EXCEPT !.storedKeys = <<>>,
                   !.logs = @ \o <<Log("info", <<"No keys found in storage">>)>>]

\* The last entry of the storage log is the one of a load.
JustLoaded ==
    /\ ks.logs # <<>>
    /\ ks.logs[Len(ks.logs)].message[1] \in {"Loaded ", "No keys found in storage"}

\* The Reload button: loadStoredKeys.  (It appends to the log; a click that
\* follows a load at once would repeat it and is left out.)
ReloadKeys ==
    /\ ~JustLoaded
    /\ ks' = loadStoredKeys(ks, storage)
    /\ UNCHANGED <<keys, faults, appVars, init, kc, km, sg, cm, ex, vs, core>>
    /\ UNCHANGED <<storage, pf, issued>>

\* The end of a handleSaveKeys run c that did not throw: the list is
\* written to the storage and shown.
saveFinished(c) ==
    /\ storage' = JSONstringify(c.keysToStore)
    /\ ks' = [c EXCEPT !.pc = "idle", !.isLoading = FALSE,
                       !.storedKeys = c.keysToStore, !.saved = c.got,
                       !.ecdsaKeyId = NoKey, !.mldsaKeyId = NoKey,
                       !.keysToStore = <<>>, !.got = <<>>,
                       !.logs = @ \o << Log("success", <<"Saved ", ToString(Len(c.keysToStore)),
                                                        " key(s) to browser storage">>),
                                        Log("info", <<"Keys persist across page refreshes">>) >>]

\* The catch and finally blocks of handleSaveKeys.
saveFailed(error) ==
    /\ ks' = [ks EXCEPT !.pc = "idle", !.isLoading = FALSE,
                        !.ecdsaKeyId = NoKey, !.mldsaKeyId = NoKey,
                        !.keysToStore = <<>>, !.got = <<>>,
                        !.logs = @ \o <<Log("error", <<"Error: ", error>>)>>]
    /\ UNCHANGED storage

\* A handleSaveKeys whose write fails after the list was shown: storedKeys
\* holds the new list and the storage the old one.
saveWriteFailedShown(c) ==
    /\ ks' = [c EXCEPT !.pc = "idle", !.isLoading = FALSE,
                       !.storedKeys = c.keysToStore,
                       !.ecdsaKeyId = NoKey, !.mldsaKeyId = NoKey,
                       !.keysToStore = <<>>, !.got = <<>>,
                       !.logs = @ \o <<Log("error", <<"Error: ", "QuotaExceededError">>)>>]
    /\ UNCHANGED storage

\* localStorage.setItem throws (the storage is full or switched off): the
\* run c of handleSaveKeys goes to its catch and finally blocks with the
\* storage as it was.
saveWriteFailed(c) ==
    /\ ks' = [c EXCEPT !.pc = "idle", !.isLoading = FALSE,
                       !.ecdsaKeyId = NoKey, !.mldsaKeyId = NoKey,
                       !.keysToStore = <<>>, !.got = <<>>,
                       !.logs = @ \o <<Log("error", <<"Error: ", "QuotaExceededError">>)>>]
    /\ UNCHANGED storage

\* The write at the end of a run c of handleSaveKeys, which the browser
\* accepts or refuses.
saveWrite(c, ok) ==
    IF ok THEN saveFinished(c) /\ UNCHANGED faults
    ELSE saveWriteFailed(c) /\ faults' = faults + 1

\* handleSaveKeys up to its first `await sdk.getPublicKey(...)`.
SaveKeysStart ==
    /\ sdk /\ hasAnyKey /\ ~ks.isLoading
    /\ ks.pc = "idle"
    /\ ks' = [ks EXCEPT !.isLoading = TRUE,
                        !.pc = IF ecdsaKeyId # NoKey THEN "ecdsa" ELSE "mldsa",
                        !.ecdsaKeyId = ecdsaKeyId, !.mldsaKeyId = mldsaKeyId,
                        !.keysToStore = <<>>, !.got = <<>>,
                        !.logs = IF ecdsaKeyId # NoKey
                                 THEN <<Log("info", <<"Saving ECDSA key...">>)>>
                                 ELSE <<Log("info", <<"Saving ML-DSA key...">>)>>]
    /\ UNCHANGED <<keys, faults, appVars, init, kc, km, sg, cm, ex, vs, core>>
    /\ UNCHANGED <<storage, pf, issued>>

\* getPublicKey(ecdsaKeyId) settles.
SaveKeysEcdsa ==
    /\ ks.pc = "ecdsa"
    /\ \E now \in Times :
          LET r == getPublicKey(ks.ecdsaKeyId)
              c == [ks EXCEPT
                      !.keysToStore = Append(@, StoredKeyData(ks.ecdsaKeyId, "ECDSA",
                                                              toHexString(r.bytes), now)),
                      !.got = Append(@, [id |-> ks.ecdsaKeyId, bytes |-> Len(r.bytes),
                                         material |-> keys[ks.ecdsaKeyId].material]),
                      !.logs = @ \o <<Log("success", <<"ECDSA key saved">>)>>]
          IN  IF ~r.ok THEN saveFailed(r.error) /\ UNCHANGED faults
              ELSE IF ks.mldsaKeyId # NoKey
              THEN /\ ks' = [c EXCEPT !.pc = "mldsa",
                                      !.logs = @ \o <<Log("info", <<"Saving ML-DSA key...">>)>>]
                   /\ UNCHANGED <<storage, faults>>
              ELSE \E ok \in Outcomes : saveWrite(c, ok)
    /\ UNCHANGED <<keys, appVars, init, kc, km, sg, cm, ex, vs, core>>
    /\ UNCHANGED <<pf, issued>>

\* getPublicKey(mldsaKeyId) settles.
SaveKeysMldsa ==
    /\ ks.pc = "mldsa"
    /\ \E now \in Times :
          LET r == getPublicKey(ks.mldsaKeyId)
              c == [ks EXCEPT
                      !.keysToStore = Append(@, StoredKeyData(ks.mldsaKeyId, "ML-DSA",
                                                              toHexString(r.bytes), now)),
                      !.got = Append(@, [id |-> ks.mldsaKeyId, bytes |-> Len(r.bytes),
                                         material |-> keys[ks.mldsaKeyId].material]),
                      !.logs = @ \o <<Log("success", <<"ML-DSA key saved">>)>>]
          IN  IF ~r.ok THEN saveFailed(r.error) /\ UNCHANGED faults
              ELSE \E ok \in Outcomes : saveWrite(c, ok)
    /\ UNCHANGED <<keys, appVars, init, kc, km, sg, cm, ex, vs, core>>
    /\ UNCHANGED <<pf, issued>>

\* handleClearStorage
ClearStorage ==
    /\ Len(ks.storedKeys) # 0
    /\ storage' = NoItem
    /\ ks' = [ks EXCEPT !.storedKeys = <<>>, !.saved = <<>>,
                        !.logs = <<Log("success", <<"Storage cleared">>)>>]
    /\ UNCHANGED <<keys, faults, appVars, init, kc, km, sg, cm, ex, vs, core>>
    /\ UNCHANGED <<pf, issued>>

\* ----------------------------------------------------- PerformanceSection
\* The key creations of the first loop (PerfAgent0..PerfAgent9).
PerfKeyCreations == 10

\* const iterations = 100
iterations == 100

\* The message the performance test signs.
PerfMessage == "Performance test message"

\* A performance test that creates its keys for the demo's own agent.
PerfAgentOfDemo(i) == BrowserAgent

\* `PerfAgent${i}`
PerfAgent(i) == "PerfAgent" \o ToString(i)

\* An end of handleRunPerformanceTest that reports the test as complete
\* whatever went wrong.
performanceFailedSilently(error) ==
    pf' = [pf EXCEPT !.pc = "idle", !.isRunning = FALSE, !.i = 0,
                     !.testKey = NoKey, !.sig = NoSignature,
                     !.logs = @ \o <<Log("success", <<"Performance test complete!">>)>>]

\* The catch and finally blocks of handleRunPerformanceTest.
performanceFailed(error) ==
    pf' = [pf EXCEPT !.pc = "idle", !.isRunning = FALSE, !.i = 0,
                     !.testKey = NoKey, !.sig = NoSignature,
                     !.logs = @ \o <<Log("error", <<"Error: ", error>>)>>]

\* handleRunPerformanceTest up to its first `await sdk.createKey(...)`.
PerformanceStart ==
    /\ sdk /\ ~pf.isRunning
    /\ pf.pc = "idle"
    /\ pf.runs < MaxPerfRuns
    /\ pf' = [pf EXCEPT !.pc = "create", !.isRunning = TRUE, !.i = 0,
                        !.runs = @ + 1, !.created = <<>>,
                        !.signs = 0, !.verifies = 0,
                        !.logs = << Log("info", <<"Running performance test...">>),
                                    Log("info", <<"Testing 10 key creations and 100 sign/verify operations">>),
                                    Log("info", <<"ECDSA Performance:">>) >>]
    /\ UNCHANGED <<keys, faults, appVars, init, kc, km, sg, cm, ex, vs, core>>
    /\ UNCHANGED <<ks, storage, issued>>

\* createKey(PerfAgent i) settles; after the last one of the loop the
\* handler calls createKey('PerfTest').
PerformanceKeyCreated ==
    /\ pf.pc = "create"
    /\ \E ok \in Outcomes :
          LET r == createKey(PerfAgent(pf.i), EcdsaSuite, ok)
          IN  /\ keys' = r.keys
              /\ IF ~r.ok
                 THEN performanceFailed(r.error) /\ faults' = faults + 1
                 ELSE /\ UNCHANGED faults
                      /\ IF pf.i + 1 < PerfKeyCreations
                         THEN pf' = [pf EXCEPT !.i = @ + 1,
                                               !.created = Append(@, r.keyId)]
                         ELSE pf' = [pf EXCEPT
                                 !.pc = "createTest", !.i = 0,
                                 !.created = Append(@, r.keyId),
                                 !.logs = @ \o <<Log("info", <<"Key creation (10x)">>)>>]
    /\ UNCHANGED <<appVars, init, kc, km, sg, cm, ex, vs, core>>
    /\ UNCHANGED <<ks, storage, issued>>

\* createKey('PerfTest') settles; the signing loop starts.
PerformanceTestKeyCreated ==
    /\ pf.pc = "createTest"
    /\ \E ok \in Outcomes :
          LET r == createKey("PerfTest", EcdsaSuite, ok)
          IN  /\ keys' = r.keys
              /\ IF ~r.ok
                 THEN performanceFailed(r.error) /\ faults' = faults + 1
                 ELSE /\ UNCHANGED faults
                      /\ pf' = [pf EXCEPT !.pc = "sign", !.i = 0, !.testKey = r.keyId,
                                          !.created = Append(@, r.keyId)]
    /\ UNCHANGED <<appVars, init, kc, km, sg, cm, ex, vs, core>>
    /\ UNCHANGED <<ks, storage, issued>>

\* The iterations of a loop at which a call is let fail: the first and
\* the last.
FailingIterations == {1, iterations}

\* The signing loop, all its awaits in one step: its calls sign with the
\* test key, which no other handler reads or writes, so that what else
\* happens between two of them makes no difference to them. Either every
\* call returns a signature, or the call of one iteration throws and the
\* loop is left at once.
PerformanceSigned ==
    /\ pf.pc = "sign"
    /\ \E failAt \in {0} \cup (IF faults < MaxFaults THEN FailingIterations ELSE {}) :
          LET r == signWithKey(pf.testKey, PerfMessage, failAt = 0)
          IN  IF ~r.ok
              THEN /\ pf' = [pf EXCEPT
                          !.pc = "idle", !.isRunning = FALSE, !.i = 0,
                          !.testKey = NoKey, !.sig = NoSignature,
                          !.signs = IF failAt = 0 THEN 0 ELSE failAt - 1,
                          !.logs = @ \o <<Log("error", <<"Error: ", r.error>>)>>]
                   /\ faults' = IF failAt = 0 THEN faults ELSE faults + 1
              ELSE /\ UNCHANGED faults
                   /\ pf' = [pf EXCEPT
                          !.pc = "signOne", !.i = 0, !.signs = iterations,
                          !.logs = @ \o <<Log("info", <<"Signing (100x)">>)>>]
    /\ UNCHANGED <<keys, appVars, init, kc, km, sg, cm, ex, vs, core>>
    /\ UNCHANGED <<ks, storage, issued>>

\* `const sig = await sdk.signWithKey(...)` settles; the verification
\* loop starts.
PerformanceSignedOne ==
    /\ pf.pc = "signOne"
    /\ \E ok \in Outcomes :
          LET r == signWithKey(pf.testKey, PerfMessage, ok)
          IN  IF ~r.ok
              THEN performanceFailed(r.error) /\ faults' = faults + 1
              ELSE /\ UNCHANGED faults
                   /\ pf' = [pf EXCEPT !.pc = "verify", !.i = 0, !.signs = @ + 1,
                                       !.sig = r.signature]
    /\ UNCHANGED <<keys, appVars, init, kc, km, sg, cm, ex, vs, core>>
    /\ UNCHANGED <<ks, storage, issued>>

\* The verification loop, all its awaits in one step, as the signing loop:
\* verifySignature is called with the same key, message and signature every
\* time and its result is not looked at; a call that throws leaves the loop.
PerformanceVerified ==
    /\ pf.pc = "verify"
    /\ LET r == verifySignature(pf.testKey, PerfMessage, pf.sig)
       IN  IF ~r.ok
           THEN performanceFailed(r.error)
           ELSE pf' = [pf EXCEPT
                   !.pc = "idle", !.isRunning = FALSE, !.i = 0,
                   !.verifies = iterations,
                   !.testKey = NoKey, !.sig = NoSignature,
                   !.logs = @ \o << Log("success", <<"Verification (100x)">>),
                                    Log("success", <<"Performance test complete!">>),
                                    Log("info", <<"Throughput:">>),
                                    Log("info", <<"signatures/sec">>),
                                    Log("info", <<"verifications/sec">>) >>]
    /\ UNCHANGED <<keys, faults, appVars, init, kc, km, sg, cm, ex, vs, core>>
    /\ UNCHANGED <<ks, storage, issued>>

\* -------------------------------------------------- direct calls of the SDK
\* The suite identifiers a caller may name: the registered ones and the
\* algorithm values of the verification form.
CalledSuites == SignatureSuite \cup FormAlgorithms

\* The public keys a caller may import: a whole ECDSA key, its first 32
\* bytes (what the export section shows of it) and a whole ML-DSA-65 key.
ImportedKeys ==
    { PublicKeyBytes(33, 1),
      hexToUint8Array(arrayToHex(PublicKeyBytes(33, 1), ArrayToHexDefaultLength)),
      PublicKeyBytes(1952, 2) }

\* No direct call yet; the fields of a call that a call does not use keep
\* these values.
NoCall ==
    [op |-> "none", suite |-> "", length |-> 0, ok |-> FALSE, error |-> "",
     keyId |-> NoKey, agent |-> "", message |-> "", signature |-> NoSignature,
     valid |-> FALSE, before |-> "", activeOnly |-> FALSE, list |-> <<>>]

\* A caller calls createKey(BrowserAgent, suiteId).
CoreCreateKey ==
    /\ sdk /\ RoomToCreate
    /\ \E suiteId \in CalledSuites, ok \in Outcomes :
          LET r == createKey(BrowserAgent, suiteId, ok)
          IN  /\ keys' = r.keys
              /\ faults' = IF Registered(suiteId) /\ ~ok THEN faults + 1 ELSE faults
              /\ core' = [NoCall EXCEPT !.op = "createKey", !.suite = suiteId,
                                        !.agent = BrowserAgent, !.ok = r.ok,
                                        !.error = r.error, !.keyId = r.keyId]
    /\ UNCHANGED <<appVars, init, kc, km, sg, cm, ex, vs>>
    /\ UNCHANGED <<ks, storage, pf, issued>>

\* A caller calls importPublicKey(bytes, suiteId).
CoreImportPublicKey ==
    /\ sdk /\ RoomToCreate
    /\ \E bytes \in ImportedKeys, suiteId \in CalledSuites :
          LET r == importPublicKey(bytes, suiteId)
          IN  /\ keys' = r.keys
              /\ core' = [NoCall EXCEPT !.op = "importPublicKey", !.suite = suiteId,
                                        !.length = Len(bytes), !.ok = r.ok,
                                        !.error = r.error, !.keyId = r.keyId]
    /\ UNCHANGED <<faults, appVars, init, kc, km, sg, cm, ex, vs>>
    /\ UNCHANGED <<ks, storage, pf, issued>>

\* The message of the direct sign calls, and another one.
CoreMessage == "typed"
OtherMessage == "other"

\* A caller calls deactivate(keyId), for a key of the store or for an
\* identifier the store does not hold.
CoreDeactivate ==
    /\ sdk
    /\ \E keyId \in 1..(Len(keys) + 1) :
          LET r == deactivate(keyId)
          IN  /\ keys' = r.keys
              /\ core' = [NoCall EXCEPT
                            !.op = "deactivate", !.keyId = keyId,
                            !.ok = r.ok, !.error = r.error,
                            !.before = IF keyId \in KeyIds THEN keys[keyId].status
                                       ELSE "absent"]
    /\ UNCHANGED <<faults, appVars, init, kc, km, sg, cm, ex, vs>>
    /\ UNCHANGED <<ks, storage, pf, issued>>

\* A caller calls signWithKey(keyId, message).
CoreSignWithKey ==
    /\ sdk
    /\ \E keyId \in KeyIds, ok \in Outcomes :
          LET r == signWithKey(keyId, CoreMessage, ok)
          IN  /\ faults' = IF r.error = "CorruptSuiteOutput" THEN faults + 1 ELSE faults
              /\ core' = [NoCall EXCEPT
                            !.op = "signWithKey", !.keyId = keyId,
                            !.message = CoreMessage, !.ok = r.ok, !.error = r.error,
                            !.signature = r.signature,
                            !.before = keys[keyId].status]
              /\ issued' = IF r.ok
                           THEN issued \cup {[keyId |-> keyId, message |-> CoreMessage,
                                              signature |-> r.signature]}
                           ELSE issued
    /\ UNCHANGED <<keys, appVars, init, kc, km, sg, cm, ex, vs>>
    /\ UNCHANGED <<ks, storage, pf>>

\* A caller calls verifySignature(keyId, message, signature) with a
\* signature that a sign call has returned.
CoreVerifySignature ==
    /\ sdk
    /\ \E s \in issued, keyId \in KeyIds, message \in {CoreMessage, OtherMessage} :
          LET r == verifySignature(keyId, message, s.signature)
          IN  core' = [NoCall EXCEPT
                          !.op = "verifySignature", !.keyId = keyId,
                          !.message = message, !.signature = s.signature,
                          !.ok = r.ok, !.error = r.error, !.valid = r.valid,
                          !.before = keys[keyId].status]
    /\ UNCHANGED <<keys, faults, appVars, init, kc, km, sg, cm, ex, vs>>
    /\ UNCHANGED <<ks, storage, pf, issued>>

\* The agents a caller lists the keys of: the demo's agent, an agent of
\* the performance test, and one that owns no key.
ListedAgents == {BrowserAgent, "PerfTest", "Nobody"}

\* A caller calls listKeysForAgent(agentId, activeOnly).
CoreListKeys ==
    /\ sdk
    /\ \E agentId \in ListedAgents, activeOnly \in BOOLEAN :
          core' = [NoCall EXCEPT !.op = "listKeysForAgent", !.agent = agentId,
                                 !.activeOnly = activeOnly, !.ok = TRUE,
                                 !.list = listKeysForAgent(agentId, activeOnly)]
    /\ UNCHANGED <<keys, faults, appVars, init, kc, km, sg, cm, ex, vs>>
    /\ UNCHANGED <<ks, storage, pf, issued>>

\* ------------------------------------------------------------ the program
\* The state of a freshly loaded page over a browser storage that holds
\* `stored`: every component in its initial state, no SDK instance, and the
\* storage section after its mount-time loadStoredKeys.
Mount(stored) ==
    [ keys |-> <<>>,
      faults |-> 0,
      sdk |-> FALSE,
      ecdsaKeyId |-> NoKey,
      mldsaKeyId |-> NoKey,
      stats |-> [keysCreated |-> 0, signaturesCreated |-> 0, verifications |-> 0],
      init |-> [pc |-> "idle", isLoading |-> FALSE, isInitialized |-> FALSE,
                 lumenKeys |-> FALSE, logs |-> <<>>],
      kc |-> [mldsaVariant |-> "ml-dsa-65", isCreatingEcdsa |-> FALSE,
               isCreatingMldsa |-> FALSE, pcEcdsa |-> "idle", pcMldsa |-> "idle",
               variant |-> "", logs |-> <<>>],
      km |-> [isListing |-> FALSE, isRotating |-> FALSE, isGettingProfile |-> FALSE,
               pcRotate |-> "idle", ecdsaKeyId |-> NoKey, mldsaKeyId |-> NoKey,
               newKeys |-> <<>>, newEcdsaKeyId |-> NoKey, newMldsaKeyId |-> NoKey,
               outcome |-> "none", activeBefore |-> <<>>,
               pcList |-> "idle", listed |-> <<>>,
               pcProfile |-> "idle", profile |-> NoProfile, logs |-> <<>>],
      sg |-> [isSigning |-> FALSE, isSigningBoth |-> FALSE,
               pcSV |-> "idle", svKeyId |-> NoKey, svSignature |-> NoSignature,
               pcBoth |-> "idle", ecdsaKeyId |-> NoKey, mldsaKeyId |-> NoKey,
               ecdsaSig |-> NoSignature, mldsaSig |-> NoSignature,
               bothOutcome |-> "none", bothCalls |-> <<>>, logs |-> <<>>],
      cm |-> [message |-> "", selectedAlgorithm |-> "both", isSigning |-> FALSE,
               signatures |-> [ecdsa |-> NoSignature, mldsa |-> NoSignature],
               pc |-> "idle", ecdsaKeyId |-> NoKey, mldsaKeyId |-> NoKey,
               algorithm |-> "", text |-> "",
               newSignatures |-> [ecdsa |-> NoSignature, mldsa |-> NoSignature],
               calls |-> <<>>, outcome |-> "none", logs |-> <<>>],
      ex |-> [publicKeys |-> [ecdsa |-> NoHex, mldsa |-> NoHex],
               pc |-> "idle", ecdsaKeyId |-> NoKey, mldsaKeyId |-> NoKey,
               keys |-> [ecdsa |-> NoHex, mldsa |-> NoHex],
               exported |-> [ecdsa |-> NoKey, mldsa |-> NoKey],
               downloaded |-> <<>>, logs |-> <<>>],
      vs |-> [pc |-> "idle", isVerifying |-> FALSE, verificationResult |-> "null",
               message |-> "", algorithm |-> "", publicKey |-> <<>>, signature |-> <<>>,
               keyId |-> NoKey, calls |-> <<>>, logs |-> <<>>],
      core |-> NoCall,
      ks |-> loadStoredKeys([storedKeys |-> <<>>, isLoading |-> FALSE, pc |-> "idle",
                              ecdsaKeyId |-> NoKey, mldsaKeyId |-> NoKey,
                              keysToStore |-> <<>>, got |-> <<>>, saved |-> <<>>,
                              logs |-> <<>>], stored),
      storage |-> stored,
      pf |-> [isRunning |-> FALSE, pc |-> "idle", i |-> 0, runs |-> 0, testKey |-> NoKey,
               sig |-> NoSignature, created |-> <<>>, signs |-> 0, verifies |-> 0,
               logs |-> <<>>],
      issued |-> {} ]

Init ==
    LET page == Mount(NoItem)
    IN  /\ keys = page.keys
        /\ faults = page.faults
        /\ sdk = page.sdk
        /\ ecdsaKeyId = page.ecdsaKeyId
        /\ mldsaKeyId = page.mldsaKeyId
        /\ stats = page.stats
        /\ init = page.init
        /\ kc = page.kc
        /\ km = page.km
        /\ sg = page.sg
        /\ cm = page.cm
        /\ ex = page.ex
        /\ vs = page.vs
        /\ core = page.core
        /\ ks = page.ks
        /\ storage = page.storage
        /\ pf = page.pf
        /\ issued = page.issued

\* The page is refreshed: the components and the SDK instance start anew,
\* what is in flight is dropped, and the browser storage is what it was.
\* (The fault count, the files downloaded, what the last save had got from
\* the SDK and the count of performance runs are kept: they record the run,
\* not the page.)
PageRefresh ==
    LET page == Mount(storage)
    IN  /\ keys' = page.keys
        /\ faults' = faults
        /\ sdk' = page.sdk
        /\ ecdsaKeyId' = page.ecdsaKeyId
        /\ mldsaKeyId' = page.mldsaKeyId
        /\ stats' = page.stats
        /\ init' = page.init
        /\ kc' = page.kc
        /\ km' = page.km
        /\ sg' = page.sg
        /\ cm' = page.cm
        /\ ex' = [page.ex EXCEPT !.downloaded = ex.downloaded]
        /\ vs' = page.vs
        /\ core' = page.core
        /\ ks' = [page.ks EXCEPT !.saved = ks.saved]
        /\ storage' = storage
        /\ pf' = [page.pf EXCEPT !.runs = pf.runs]
        /\ issued' = page.issued

Initialize == InitializeStart \/ InitializeLoaded \/ InitializeCreated

CreateKeys ==
    \/ CreateECDSAStart \/ CreateECDSADone
    \/ CreateMLDSAStart \/ CreateMLDSADone

Rotate == RotateStart \/ RotateEcdsa \/ RotateMldsa

\* Key creation and rotation.
NextKeys == Initialize \/ CreateKeys \/ Rotate

SpecKeys == Init /\ [][NextKeys]_vars

SignAndVerify == SignAndVerifyStart \/ SignAndVerifySigned \/ SignAndVerifyVerified

SignWithBoth == SignWithBothStart \/ SignWithBothEcdsa \/ SignWithBothMldsa

SignMessage ==
    \/ SignMessageStart
    \/ SignMessageEcdsaSigned \/ SignMessageEcdsaVerified
    \/ SignMessageMldsaSigned \/ SignMessageMldsaVerified

\* Key creation and the signing sections.
NextSign == Initialize \/ CreateKeys \/ SignAndVerify \/ SignWithBoth \/ SignMessage

SpecSign == Init /\ [][NextSign]_vars

Export == ExportStart \/ ExportEcdsa \/ ExportMldsa

\* Key creation, rotation and the export of public keys.
NextExport == Initialize \/ CreateKeys \/ Rotate \/ Export

SpecExport == Init /\ [][NextExport]_vars

VerifySignature == VerifySignatureStart \/ VerifySignatureSettled

CoreCalls == CoreCreateKey \/ CoreImportPublicKey

\* Direct calls of the key store and the external verification form.
NextCore == Initialize \/ CoreCalls \/ VerifySignature

SpecCore == Init /\ [][NextCore]_vars

\* Direct calls of the key store and the signing engine over the life of
\* a key: created or imported, signed and verified with, deactivated.
NextLifecycle ==
    \/ Initialize
    \/ CoreCreateKey
    \/ CoreImportPublicKey
    \/ CoreDeactivate
    \/ CoreSignWithKey
    \/ CoreVerifySignature

SpecLifecycle == Init /\ [][NextLifecycle]_vars

\* No performance test is running.
PerformanceIdle == pf.pc = "idle"

\* No creation handler and no rotation is under way.
HandlersIdle == PendingCreates = 0 /\ km.pcRotate = "idle"

SaveKeys == SaveKeysStart \/ SaveKeysEcdsa \/ SaveKeysMldsa

\* What is stored and what comes back: saving, reloading and clearing the
\* stored keys, and page refreshes, over keys the creation handlers make
\* (with no createKey call failing).  The SDK is initialized on a page
\* whose storage is empty: a page that is refreshed over stored keys shows,
\* reloads and clears them.
NextStorage ==
    \/ ~storage.item /\ Initialize
    \/ CreateKeys /\ faults' = faults
    \/ SaveKeys
    \/ ReloadKeys
    \/ ClearStorage
    \/ PageRefresh

SpecStorage == Init /\ [][NextStorage]_vars

\* What leaves the page: the saves to the browser storage, the exports and
\* the downloads, over keys the creation handlers make (with no createKey
\* call failing).
NextPublic ==
    \/ Initialize
    \/ CreateKeys /\ faults' = faults
    \/ SaveKeys /\ faults' = faults
    \/ Export
    \/ DownloadKeys

SpecPublic == Init /\ [][NextPublic]_vars

\* The handlers that are under way (between a click and the end of the
\* handler it started).
RunningHandlers ==
    Cardinality({h \in { <<"init", init.pc>>, <<"ecdsa", kc.pcEcdsa>>, <<"mldsa", kc.pcMldsa>>,
                         <<"rotate", km.pcRotate>>, <<"list", km.pcList>>,
                         <<"profile", km.pcProfile>>, <<"sv", sg.pcSV>>,
                         <<"both", sg.pcBoth>>, <<"message", cm.pc>>, <<"export", ex.pc>>,
                         <<"verify", vs.pc>>, <<"save", ks.pc>>, <<"perf", pf.pc>>} :
                    h[2] # "idle"})

ListKeys == ListKeysStart \/ ListKeysSettled

GetProfile == GetProfileStart \/ GetProfileSettled

\* A direct deactivate call for a key of the demo's agent or for an
\* identifier the store does not hold.
DeactivateDemoKey ==
    CoreDeactivate /\ (core'.before = "absent" \/ keys[core'.keyId].agent = BrowserAgent)

\* The steps of the performance test after its start.
PerformanceSteps ==
    \/ PerformanceKeyCreated
    \/ PerformanceTestKeyCreated
    \/ PerformanceSigned
    \/ PerformanceSignedOne
    \/ PerformanceVerified

\* Listing and profile, over a store the performance test and the creation
\* handlers fill and direct deactivate calls retire keys of.  The
\* performance test runs first, with no call of it failing, and nothing
\* else happens while it runs.
NextListing ==
    \/ Initialize
    \/ PerformanceIdle /\ (CreateKeys \/ ListKeys \/ CoreListKeys)
    \/ PerformanceIdle /\ DeactivateDemoKey
    \/ keys = <<>> /\ core = NoCall /\ PerformanceStart
    \/ PerformanceSteps /\ faults' = faults

SpecListing == Init /\ [][NextListing]_vars

\* The profile, over a store filled and retired as for the listing.
NextProfile ==
    \/ Initialize
    \/ PerformanceIdle /\ (CreateKeys \/ GetProfile)
    \/ PerformanceIdle /\ DeactivateDemoKey
    \/ keys = <<>> /\ core = NoCall /\ PerformanceStart
    \/ PerformanceSteps /\ faults' = faults

SpecProfile == Init /\ [][NextProfile]_vars

Performance == PerformanceStart \/ PerformanceSteps

\* Everything that adds key records: the creation and rotation handlers,
\* direct imports and the performance test. The performance test is
\* started when no creation or rotation is under way, and while it runs
\* only direct imports come in between its calls.
NextIds ==
    \/ Initialize
    \/ PerformanceIdle /\ (CreateKeys \/ Rotate)
    \/ CoreImportPublicKey
    \/ HandlersIdle /\ PerformanceStart
    \/ PerformanceSteps

SpecIds == Init /\ [][NextIds]_vars

\* The handlers that call an SDK operation which can fail, one click after
\* the other, up to the end of the first handler in which a primitive of
\* the SDK fails: a button is clicked when no handler is under way and no
\* primitive has failed.
NextErrors ==
    \/ RunningHandlers = 0 /\ faults = 0 /\
          ( \/ InitializeStart
            \/ CreateECDSAStart \/ CreateMLDSAStart
            \/ RotateStart
            \/ SignAndVerifyStart
            \/ SignWithBothStart
            \/ SignMessageStart
            \/ VerifySignatureStart
            \/ PerformanceStart )
    \/ InitializeLoaded \/ InitializeCreated
    \/ CreateECDSADone \/ CreateMLDSADone
    \/ RotateEcdsa \/ RotateMldsa
    \/ SignAndVerifySigned \/ SignAndVerifyVerified
    \/ SignWithBothEcdsa \/ SignWithBothMldsa
    \/ SignMessageEcdsaSigned \/ SignMessageEcdsaVerified
    \/ SignMessageMldsaSigned \/ SignMessageMldsaVerified
    \/ VerifySignatureSettled
    \/ PerformanceSteps

SpecErrors == Init /\ [][NextErrors]_vars

\* The steps in which a pending SDK call of a handler settles.
Settles ==
    \/ InitializeLoaded \/ InitializeCreated
    \/ CreateECDSADone \/ CreateMLDSADone
    \/ RotateEcdsa \/ RotateMldsa
    \/ ListKeysSettled \/ GetProfileSettled
    \/ SignAndVerifySigned \/ SignAndVerifyVerified
    \/ SignWithBothEcdsa \/ SignWithBothMldsa
    \/ SignMessageEcdsaSigned \/ SignMessageEcdsaVerified
    \/ SignMessageMldsaSigned \/ SignMessageMldsaVerified
    \/ VerifySignatureSettled
    \/ SaveKeysEcdsa \/ SaveKeysMldsa
    \/ PerformanceSteps

\* The output panels of the sections that work with the keys, and what they
\* show on a fresh page.
WorkPanels == [km |-> km.logs, sg |-> sg.logs, cm |-> cm.logs, vs |-> vs.logs,
               ks |-> ks.logs, pf |-> pf.logs]

FreshPanels == LET page == Mount(NoItem)
               IN  [km |-> page.km.logs, sg |-> page.sg.logs, cm |-> page.cm.logs,
                    vs |-> page.vs.logs, ks |-> page.ks.logs, pf |-> page.pf.logs]

\* No section but the named one has been worked in.
OnlyIn(section) ==
    \A other \in DOMAIN WorkPanels \ {section} : WorkPanels[other] = FreshPanels[other]

\* Every handler that has a busy flag, one click after the other, up to the
\* end of the first handler in which a primitive of the SDK fails.  After
\* initialization and key creation the user works in one section, again and
\* again.
NextBusy ==
    \/ RunningHandlers = 0 /\ faults = 0 /\
          ( \/ InitializeStart
            \/ CreateECDSAStart \/ CreateMLDSAStart
            \/ OnlyIn("km") /\ (RotateStart \/ ListKeysStart \/ GetProfileStart)
            \/ OnlyIn("sg") /\ (SignAndVerifyStart \/ SignWithBothStart)
            \/ OnlyIn("cm") /\ SignMessageStart
            \/ OnlyIn("vs") /\ VerifySignatureStart
            \/ OnlyIn("ks") /\ SaveKeysStart
            \/ OnlyIn("pf") /\ PerformanceStart )
    \/ Settles

\* Every promise of the SDK settles: a pending call does not stay pending
\* for ever.
SpecBusy == Init /\ [][NextBusy]_vars /\ WF_vars(Settles)

\* Initialization, which may fail and be attempted again, and after it the
\* handlers of NextBusy with no SDK call of theirs failing.
NextSdk ==
    \/ Initialize
    \/ RunningHandlers = 0 /\
          ( \/ CreateECDSAStart \/ CreateMLDSAStart
            \/ OnlyIn("km") /\ (RotateStart \/ ListKeysStart \/ GetProfileStart)
            \/ OnlyIn("sg") /\ (SignAndVerifyStart \/ SignWithBothStart)
            \/ OnlyIn("cm") /\ SignMessageStart
            \/ OnlyIn("vs") /\ VerifySignatureStart
            \/ OnlyIn("ks") /\ SaveKeysStart
            \/ OnlyIn("pf") /\ PerformanceStart )
    \/ init.pc = "idle" /\ Settles /\ faults' = faults

SpecSdk == Init /\ [][NextSdk]_vars

\* ------------------------------------------------------------- the claims
\* The step of a rotation in which a createKey call settles.
RotationStep == km.pcRotate # "idle" /\ km'.pcRotate # km.pcRotate

\* C2: a rotation of an agent whose only active key has suite S creates
\* exactly one record, and its suite is S.
RotationKeepsSuite ==
    (km.outcome = "ok" /\ Len(km.activeBefore) = 1) =>
        /\ Len(km.newKeys) = 1
        /\ keys[km.newKeys[1]].suite = keys[km.activeBefore[1]].suite

\* C3: a rotation creates as many records as the agent had active keys when
\* it started, and returns them in creation order.
RotationReplacesEveryActiveKey ==
    km.outcome = "ok" =>
        /\ Len(km.newKeys) = Len(km.activeBefore)
        /\ \A i, j \in 1..Len(km.newKeys) : i < j => km.newKeys[i] < km.newKeys[j]

\* C4: a step of a rotation only adds records: every record that existed
\* before the step is unchanged after it, and every key that
\* listKeysForAgent(BrowserAgent, activeOnly = true) returned is still returned.
RotationOnlyAdds ==
    [][RotationStep =>
        /\ Len(keys') >= Len(keys)
        /\ \A k \in 1..Len(keys) : keys'[k] = keys[k]
        /\ LET before == listKeysForAgent(BrowserAgent, TRUE)
               after == listKeysForAgent(BrowserAgent, TRUE)'
           IN  \A i \in 1..Len(before) : \E j \in 1..Len(after) : after[j] = before[i]
      ]_vars

\* C4, its case: a rotation has replaced both tracked keys, and the keys
\* that were active when it started are all still active.
RotationOnlyAddsWitness ==
    /\ km.outcome = "ok"
    /\ Len(km.newKeys) = 2
    /\ Len(km.activeBefore) >= 2
    /\ \A i \in 1..Len(km.activeBefore) : keys[km.activeBefore[i]].status = "active"

\* The log entries of a panel that report a signature of the first key of a
\* hybrid signing as a success.
FirstKeySuccesses(logs) ==
    {i \in 1..Len(logs) :
        /\ logs[i].type = "success"
        /\ logs[i].message[1] \in {"ECDSA: ", "ECDSA signature created"}}

\* The step in which the second sign call of handleSignWithBoth fails.
SignWithBothFailsAtSecond == sg.pcBoth = "mldsa" /\ sg'.bothOutcome = "failed"

\* The step in which the second sign call of handleSignMessage fails, the
\* first key having signed.
SignMessageFailsAtSecond ==
    /\ cm.pc = "signMldsa" /\ cm.newSignatures.ecdsa # NoSignature
    /\ cm'.outcome = "failed"

\* C5: hybrid signing is all-or-nothing: when the sign call of the second key
\* fails, no success log entry and no stored signature of the first key is
\* left after the failed call.
HybridSignAllOrNothing ==
    [][/\ SignWithBothFailsAtSecond => FirstKeySuccesses(sg'.logs) = {}
       /\ SignMessageFailsAtSecond =>
            /\ FirstKeySuccesses(cm'.logs) = {}
            /\ cm'.signatures.ecdsa = NoSignature
      ]_vars

\* The sign calls of a run, in the order they were made: no call follows a
\* failed call, and the second key is signed with only after the first key
\* has signed successfully.
InOrder(calls, both) ==
    /\ \A i \in 1..Len(calls) : ~calls[i].ok => i = Len(calls)
    /\ \A i, j \in 1..Len(calls) : i < j => calls[i].index <= calls[j].index
    /\ \A i \in 1..Len(calls) :
        (both /\ calls[i].op = "signWithKey" /\ calls[i].index = 2) =>
            \E j \in 1..(i - 1) :
                /\ calls[j].op = "signWithKey" /\ calls[j].index = 1 /\ calls[j].ok
                /\ keys[calls[j].keyId].suite = EcdsaSuite
                /\ StartsWithMldsa(keys[calls[i].keyId].suite)

\* A successful sign call of the first key is among the calls.
FirstKeySigned(calls) ==
    \E j \in 1..Len(calls) :
        calls[j].op = "signWithKey" /\ calls[j].index = 1 /\ calls[j].ok

\* C6: hybrid signing signs with its keys one after another, ECDSA first:
\* the sign call of the second key is in flight only after the first key's
\* has succeeded, and no call is made after a failed one.
HybridSignSequential ==
    /\ InOrder(sg.bothCalls, TRUE)
    /\ sg.pcBoth = "mldsa" => FirstKeySigned(sg.bothCalls)
    /\ sg.pcBoth = "idle" /\ sg.bothOutcome = "ok" => Len(sg.bothCalls) = 2
    /\ InOrder(cm.calls, cm.selectedAlgorithm = "both")
    /\ (cm.pc = "signMldsa" /\ cm.algorithm = "both") => FirstKeySigned(cm.calls)

\* C6, its case: the sign call of the first key has failed and the handler
\* has ended without a call for the second key.
HybridSignSequentialWitness ==
    /\ sg.bothOutcome = "failed" /\ sg.pcBoth = "idle"
    /\ Len(sg.bothCalls) = 1
    /\ sg.bothCalls[1].index = 1 /\ ~sg.bothCalls[1].ok

\* What the SDK can report as the error of a sign call.
SignErrors == {"KeyNotFound", "VerifyOnlyKey", "InactiveKey", "CorruptSuiteOutput"}

\* The parts of an error text that name the place of the failed member.
IndexAnnotations == {"suite index 1", "suite index 2"}

\* C7: when a member sign call of handleSignWithBoth fails, the error entry
\* the handler reports holds the member's error unchanged and names the
\* place (first or second) of the member that failed.
HybridErrorNamesIndex ==
    [][(sg.pcBoth # "idle" /\ sg'.bothOutcome = "failed") =>
        LET e == sg'.logs[Len(sg'.logs)] IN
        /\ e.type = "error"
        /\ \E i \in 1..Len(e.message) : e.message[i] \in SignErrors
        /\ \E i \in 1..Len(e.message) : e.message[i] \in IndexAnnotations
      ]_vars

\* The log entries that report a verification that returned false.
FailedVerifications(logs) ==
    {i \in 1..Len(logs) :
        logs[i] \in {Log("error", <<"Signature verification failed!">>),
                     Log("error", <<"Verification: ", "FAILED">>)}}

\* C10: the verification of the signature a handler has just obtained from
\* signWithKey, against the same key and message, returns true: in
\* handleSignAndVerify and in handleSignMessage, for keys of every suite.
SignThenVerifyTrue ==
    /\ sg.pcSV = "verify" =>
         verifySignature(sg.svKeyId, SignAndVerifyMessage, sg.svSignature).valid
    /\ cm.pc = "verifyEcdsa" =>
         verifySignature(cm.ecdsaKeyId, cm.text, cm.newSignatures.ecdsa).valid
    /\ cm.pc = "verifyMldsa" =>
         verifySignature(cm.mldsaKeyId, cm.text, cm.newSignatures.mldsa).valid
    /\ FailedVerifications(sg.logs) = {}
    /\ FailedVerifications(cm.logs) = {}
    /\ \A i \in 1..Len(cm.calls) : cm.calls[i].op = "verifySignature" => cm.calls[i].ok

\* C10, its case: handleSignMessage has signed and verified with an ECDSA
\* key and with an ML-DSA key other than ML-DSA-65, and both passed.
SignThenVerifyTrueWitness ==
    /\ cm.outcome = "ok"
    /\ Len(cm.calls) = 4
    /\ keys[cm.calls[2].keyId].suite = EcdsaSuite
    /\ keys[cm.calls[4].keyId].suite = "ml-dsa-87"
    /\ Cardinality({i \in 1..Len(cm.logs) :
            cm.logs[i] = Log("success", <<"Verification: ", "PASSED">>)}) = 2

\* C1: the hexadecimal text the export path produces for a public key
\* decodes with hexToUint8Array to exactly the bytes getPublicKey returned.
ExportRoundTrip ==
    \A t \in {"ecdsa", "mldsa"} :
        ex.publicKeys[t] # NoHex =>
            hexToUint8Array(ex.publicKeys[t]) = getPublicKey(ex.exported[t]).bytes

\* A direct importPublicKey call that names a registered suite and gives a
\* key whose length is not the suite's public-key length.
MalformedImportStep ==
    /\ core' # core
    /\ core'.op = "importPublicKey"
    /\ Registered(core'.suite)
    /\ core'.length # PublicKeyLength(core'.suite)

\* The verification form is about to call verifySignature.
ReachesVerify == vs.pc # "verify" /\ vs'.pc = "verify"

\* C8: importing a public key whose length differs from the expected length
\* of the named suite fails with MalformedKey and leaves the key records as
\* they were; the verification form calls verifySignature only with the
\* identifier of a key whose import succeeded, a record of its suite's
\* public-key length.
ImportRejectsWrongLength ==
    [][ /\ MalformedImportStep =>
              ~core'.ok /\ core'.error = "MalformedKey" /\ keys' = keys
        /\ ReachesVerify =>
              /\ vs'.calls # <<>>
              /\ vs'.calls[Len(vs'.calls)].op = "importPublicKey"
              /\ vs'.calls[Len(vs'.calls)].ok
              /\ vs'.keyId \in 1..Len(keys')
              /\ keys'[vs'.keyId].length = Len(vs'.publicKey)
              /\ keys'[vs'.keyId].length = PublicKeyLength(keys'[vs'.keyId].suite)
      ]_vars

\* A direct import of a key of the wrong length was rejected, and the form
\* has ended a run with a 32-byte key at its failed import.
ImportRejectsWrongLengthWitness ==
    /\ core.op = "importPublicKey"
    /\ Registered(core.suite)
    /\ core.length # PublicKeyLength(core.suite)
    /\ core.error = "MalformedKey"
    /\ vs.pc = "idle"
    /\ Len(vs.calls) = 1
    /\ vs.calls[1].op = "importPublicKey"
    /\ vs.calls[1].length = ArrayToHexDefaultLength

\* A direct createKey or importPublicKey call that names a suite the
\* registry does not know.
UnregisteredCallStep ==
    /\ core' # core
    /\ core'.op \in {"createKey", "importPublicKey"}
    /\ ~Registered(core'.suite)

\* The importPublicKey call of the verification form settles.
FormImportSettles == vs.pc = "import" /\ vs'.pc # "import"

CoreCallStep(op) == core' # core /\ core'.op = op /\ core'.keyId \in KeyIds

\* C11: a sign call on a record without a private handle fails with
\* VerifyOnlyKey and one on an inactive record with InactiveKey, and no
\* signature is returned; a verify call on such a record is not refused
\* with either error, and it accepts a signature of the record's key pair.
SignRefusedVerifyAllowed ==
    [][ /\ CoreCallStep("signWithKey") =>
              LET k == keys[core'.keyId] IN
              /\ ~k.private => core'.error = "VerifyOnlyKey"
              /\ (k.private /\ k.status = "inactive") => core'.error = "InactiveKey"
              /\ (~k.private \/ k.status = "inactive") =>
                     ~core'.ok /\ core'.signature = NoSignature /\ issued' = issued
        /\ CoreCallStep("verifySignature") =>
              LET k == keys[core'.keyId] IN
              /\ core'.error \notin {"VerifyOnlyKey", "InactiveKey"}
              /\ ( /\ ~k.private \/ k.status = "inactive"
                   /\ core'.signature.suite = k.suite
                   /\ core'.signature.material = k.material
                   /\ core'.signature.message = core'.message ) =>
                     core'.ok /\ core'.valid
      ]_vars

\* A sign call on an imported record has been refused with VerifyOnlyKey,
\* and the store holds a record that signed and was deactivated afterwards.
SignRefusedVerifyAllowedWitness ==
    /\ core.op = "signWithKey" /\ ~core.ok /\ core.error = "VerifyOnlyKey"
    /\ core.keyId \in KeyIds
    /\ ~keys[core.keyId].private
    /\ \E s \in issued : keys[s.keyId].private /\ keys[s.keyId].status = "inactive"

\* C12: every signature a sign call has returned verifies against its key
\* and message in every later state, whatever has happened to the key
\* since, its deactivation included.
IssuedSignaturesStayValid ==
    \A s \in issued :
        LET r == verifySignature(s.keyId, s.message, s.signature)
        IN  r.ok /\ r.valid

\* The key of a signature was deactivated after it signed, and a verify
\* call of that signature against the key and message has returned true.
IssuedSignaturesStayValidWitness ==
    /\ core.op = "verifySignature" /\ core.ok /\ core.valid
    /\ core.before = "inactive"
    /\ \E s \in issued :
          /\ s.keyId = core.keyId /\ s.signature = core.signature
          /\ s.message = core.message
          /\ keys[s.keyId].status = "inactive"


\* C13: no two key records of the store carry the same key identifier,
\* whatever sequence of createKey calls (creation handlers, rotation, the
\* performance test) and importPublicKey calls has filled the store.
UniqueKeyIds ==
    \A i, j \in 1..Len(keys) : i # j => keys[i].id # keys[j].id

\* The store holds a record a creation handler made and the record a
\* rotation replaced it by, an imported record, and the eleven records of a
\* performance test.
UniqueKeyIdsWitness ==
    /\ km.outcome = "ok"
    /\ Len(listKeysForAgent(BrowserAgent, FALSE)) >= 2
    /\ \E i \in 1..Len(keys) : ~keys[i].private
    /\ \E i \in 1..Len(keys) : keys[i].agent = "PerfTest"
    /\ Len(pf.created) = PerfKeyCreations + 1
    /\ pf.pc = "idle"


\* The list holds exactly the records of the agent (the active ones only if
\* activeOnly), each once, in creation order.
ExactList(list, agentId, activeOnly) ==
    /\ \A i \in 1..Len(list) :
          /\ list[i] \in KeyIds
          /\ keys[list[i]].agent = agentId
          /\ activeOnly => keys[list[i]].status = "active"
    /\ \A k \in KeyIds :
          (keys[k].agent = agentId /\ (activeOnly => keys[k].status = "active"))
              => \E i \in 1..Len(list) : list[i] = k
    /\ \A i, j \in 1..Len(list) : i < j => list[i] < list[j]

\* A direct listKeysForAgent call has been made in this step.
ListCallStep == core' # core /\ core'.op = "listKeysForAgent"

\* handleListKeys ends: its listKeysForAgent call has settled.
ListKeysStep == km.pcList = "list" /\ km'.pcList = "idle"

\* C14: listKeysForAgent(agent, activeOnly) returns exactly the records of
\* that agent, none of another agent (the performance test's keys are not
\* in the demo agent's list), in creation order, and only the active ones
\* if activeOnly is set; the List All Keys handler shows that list for the
\* demo's agent.
ListIsExact ==
    [][ /\ ListCallStep =>
              ExactList(core'.list, core'.agent, core'.activeOnly)
        /\ ListKeysStep =>
              /\ ExactList(km'.listed, BrowserAgent, FALSE)
              /\ km'.logs[2] = Log("success", <<"Found ", ToString(Len(km'.listed)), " key(s):">>)
              /\ Len(km'.logs) = 2 + 5 * Len(km'.listed)
      ]_vars

\* The store holds the keys of a performance test and two keys of the
\* demo's agent, one of them deactivated; the handler has listed both, and
\* a direct call for the active keys has returned the other one alone.
ListIsExactWitness ==
    /\ \E k \in KeyIds : keys[k].agent = "PerfTest"
    /\ \E k \in KeyIds : keys[k].agent = PerfAgent(0)
    /\ \E k \in KeyIds : keys[k].agent = BrowserAgent /\ keys[k].status = "inactive"
    /\ Len(km.listed) = 2 /\ km.pcList = "idle"
    /\ core.op = "listKeysForAgent" /\ core.agent = BrowserAgent /\ core.activeOnly
    /\ Len(core.list) = 1


\* handleGetProfile ends: its listKeysForAgent call has settled.
ProfileStep == km.pcProfile = "list" /\ km'.pcProfile = "idle"

\* The active records of the demo's agent.
ActiveDemoKeys == {k \in KeyIds : keys[k].agent = BrowserAgent /\ keys[k].status = "active"}

\* The suite categories of a profile and the line the panel shows for each.
Categories == {"hybrid", "post-quantum only", "classical only", "no active keys"}

CategoryLine(category) ==
    CASE category = "hybrid" -> Log("success", <<"Hybrid mode: Maximum security!">>)
      [] category = "post-quantum only" -> Log("success", <<"Post-quantum only: Future-ready!">>)
      [] category = "classical only" -> Log("info", <<"Classical only: Standard ECDSA">>)
      [] category = "no active keys" -> Log("info", <<"No active keys">>)

\* The category of a set of key records, by the suites among them.
CategoryOf(ids) ==
    LET classical == \E k \in ids : keys[k].suite = EcdsaSuite
        postQuantum == \E k \in ids : keys[k].suite \in MldsaSuites
    IN  IF classical /\ postQuantum THEN "hybrid"
        ELSE IF postQuantum THEN "post-quantum only"
        ELSE IF classical THEN "classical only"
        ELSE "no active keys"

\* C15: the profile is a pure read: it reports the number of active keys of
\* the agent and exactly one of the four suite categories, the one that
\* the suites of those active keys make, and it changes no key record.
ProfileIsPureRead ==
    [][ /\ km'.pcProfile # km.pcProfile => keys' = keys
        /\ ProfileStep =>
              /\ km'.profile.activeCount = Cardinality(ActiveDemoKeys)
              /\ km'.logs[3] = Log("info", <<"Total active keys: ",
                                             ToString(Cardinality(ActiveDemoKeys))>>)
              /\ {c \in Categories :
                      \E i \in 1..Len(km'.logs) : km'.logs[i] = CategoryLine(c)}
                     = {CategoryOf(ActiveDemoKeys)}
      ]_vars

\* A profile of a store that holds the ECDSA keys of a performance test
\* has reported post-quantum only, one active key; the agent's ECDSA key
\* had been deactivated.
ProfileIsPureReadWitness ==
    /\ \E k \in KeyIds : keys[k].agent = "PerfTest" /\ keys[k].status = "active"
    /\ \E k \in KeyIds : keys[k].agent = BrowserAgent /\ keys[k].status = "inactive"
                         /\ keys[k].suite = EcdsaSuite
    /\ km.pcProfile = "idle" /\ km.profile.activeCount = 1
    /\ km.profile.hasMldsa /\ ~km.profile.hasEcdsa
    /\ \E i \in 1..Len(km.logs) : km.logs[i] = CategoryLine("post-quantum only")


\* A direct deactivate call has been made in this step.
DeactivateStep == core' # core /\ core'.op = "deactivate"

\* C16: deactivate is idempotent: a call for a record of the store makes
\* its status inactive and changes nothing else, a call for an inactive
\* record changes nothing at all, and a second call after any call changes
\* nothing; a call for an identifier the store does not hold fails with
\* KeyNotFound and changes nothing.
DeactivateIdempotent ==
    [][ DeactivateStep =>
          LET keyId == core'.keyId IN
          /\ keyId \notin KeyIds =>
                ~core'.ok /\ core'.error = "KeyNotFound" /\ keys' = keys
          /\ keyId \in KeyIds =>
                /\ core'.ok /\ core'.error = ""
                /\ keys' = [keys EXCEPT ![keyId].status = "inactive"]
                /\ keys[keyId].status = "inactive" => keys' = keys
          /\ deactivateIn(keys', keyId).keys = keys'
          /\ deactivateIn(keys', keyId).ok = core'.ok
      ]_vars

\* The last call deactivated a record that was inactive already, next to
\* an active record of the store.
DeactivateIdempotentWitness ==
    /\ core.op = "deactivate" /\ core.ok /\ core.before = "inactive"
    /\ keys[core.keyId].status = "inactive"
    /\ \E k \in KeyIds : keys[k].status = "active"


\* The entries are those of the save that got `got` from the SDK: one entry
\* for each key, in the order of the getPublicKey calls, with the key's
\* identifier and a hexadecimal text that decodes to the bytes returned.
EntriesOf(entries, got) ==
    /\ Len(entries) = Len(got)
    /\ \A i \in 1..Len(got) :
          /\ entries[i].id = got[i].id
          /\ hexToUint8Array(entries[i].publicKey)
                 = PublicKeyBytes(got[i].bytes, got[i].material)

\* handleSaveKeys ends with the list written to the storage.
SaveDoneStep == ks.pc # "idle" /\ ks'.pc = "idle" /\ storage' # storage

\* loadStoredKeys has run: by the Reload button or at the mount of a
\* refreshed page.
LoadStep == ks'.logs # ks.logs /\ ks'.pc = "idle" /\ storage' = storage /\ ks' # ks
            /\ ks'.logs[Len(ks'.logs)].message[1] \in {"Loaded ", "No keys found in storage"}

\* C20: persisted public keys round-trip exactly: a save that succeeds
\* writes one entry for each key, whose hexadecimal text decodes to the
\* bytes getPublicKey returned for it, and a later load (Reload, or the
\* mount-time load of a refreshed page) shows the entries of the last
\* save, in the same order, as they were written, for ECDSA keys and for
\* ML-DSA keys.
StoredKeysRoundTrip ==
    [][ /\ SaveDoneStep =>
              /\ EntriesOf(JSONparse(storage'), ks'.saved)
              /\ ks'.storedKeys = JSONparse(storage')
        /\ (LoadStep /\ storage.item) =>
              /\ ks'.storedKeys = JSONparse(storage)
              /\ EntriesOf(ks'.storedKeys, ks'.saved)
      ]_vars

\* A refreshed page (its SDK is not initialized) shows the two entries of
\* the last save, an ECDSA key and an ML-DSA key.
StoredKeysRoundTripWitness ==
    /\ ~sdk /\ keys = <<>>
    /\ Len(ks.storedKeys) = 2 /\ Len(ks.saved) = 2
    /\ ks.storedKeys[1].algorithm = "ECDSA" /\ ks.storedKeys[2].algorithm = "ML-DSA"
    /\ Len(ks.storedKeys[2].publicKey) > 2 * ArrayToHexDefaultLength
    /\ ks.logs[Len(ks.logs)].message[1] = "Loaded "


\* The text is hexadecimal and spells the public key of the record, or of
\* some record if none is named, from its first byte on (the whole key if
\* whole is set).
PublicKeyHex(text, ids, whole) ==
    /\ \A i \in 1..Len(text) : text[i] \in HexDigits
    /\ \E k \in ids :
          LET publicKey == getPublicKey(k).bytes
              decoded == hexToUint8Array(text)
          IN  /\ Len(decoded) <= Len(publicKey)
              /\ decoded = SubSeq(publicKey, 1, Len(decoded))
              /\ whole => Len(decoded) = Len(publicKey)

\* C19: only public material leaves the SDK: every entry in the browser
\* storage holds a key identifier, an algorithm label, a time and the
\* hexadecimal text of that key's public key, and nothing else; every
\* downloaded file holds a time and the hexadecimal texts of public keys,
\* and nothing else.  No key record, private handle or key material is in
\* either.
OnlyPublicMaterialLeaves ==
    /\ storage.item =>
          \A i \in 1..Len(JSONparse(storage)) :
              LET entry == JSONparse(storage)[i] IN
              /\ DOMAIN entry = {"id", "algorithm", "publicKey", "created"}
              /\ entry.id \in KeyIds
              /\ entry.algorithm \in {"ECDSA", "ML-DSA"}
              /\ entry.created \in Times
              /\ PublicKeyHex(entry.publicKey, {entry.id}, TRUE)
    /\ \A i \in 1..Len(ex.downloaded) :
          LET file == ex.downloaded[i] IN
          /\ DOMAIN file = {"exported", "keys"}
          /\ file.exported \in Times
          /\ DOMAIN file.keys = {"ecdsa", "mldsa"}
          /\ file.keys.ecdsa # NoHex => PublicKeyHex(file.keys.ecdsa, KeyIds, FALSE)
          /\ file.keys.mldsa # NoHex => PublicKeyHex(file.keys.mldsa, KeyIds, FALSE)

\* Two keys have been saved to the browser storage and a file with the
\* exported texts of both has been downloaded.
OnlyPublicMaterialLeavesWitness ==
    /\ storage.item /\ Len(JSONparse(storage)) = 2
    /\ Len(ex.downloaded) = 1
    /\ ex.downloaded[1].keys.ecdsa # NoHex /\ ex.downloaded[1].keys.mldsa # NoHex


\* The output panels of the sections.
Panels == <<init.logs, kc.logs, km.logs, sg.logs, cm.logs, ex.logs, vs.logs, ks.logs,
            pf.logs>>

\* The busy flags of the sections.
BusyFlags == {init.isLoading, kc.isCreatingEcdsa, kc.isCreatingMldsa, km.isListing,
              km.isRotating, km.isGettingProfile, sg.isSigning, sg.isSigningBoth,
              cm.isSigning, vs.isVerifying, ks.isLoading, pf.isRunning}

\* What the SDK's operations fail with, as the panels show it.
SdkErrors == {"Failed to load SDK from CDN", "createKeySDK failed", "KeyGenerationFailed",
              "CorruptSuiteOutput", "UnknownSuite", "UnsupportedSuite", "MalformedKey",
              "MalformedSignature", "KeyNotFound", "VerifyOnlyKey", "InactiveKey"}

\* An SDK call of a handler fails in this step: a primitive of the SDK
\* fails (loading, key generation, signing), or a call of the verification
\* form is rejected.
SdkCallFails ==
    \/ faults' = faults + 1
    \/ /\ Len(vs'.calls) = Len(vs.calls) + 1
       /\ ~vs'.calls[Len(vs'.calls)].ok

\* C17: no failure is swallowed: in the step in which an SDK call of a
\* handler fails, the handler's panel gets one more entry, an error entry
\* that holds the error of the call, and nothing is reported as done: no
\* success entry is added, no counter and no tracked key changes, and the
\* verification form shows no valid result.
NoFailureSwallowed ==
    [][ SdkCallFails =>
          /\ \E p \in 1..Len(Panels) :
                /\ Len(Panels'[p]) = Len(Panels[p]) + 1
                /\ SubSeq(Panels'[p], 1, Len(Panels[p])) = Panels[p]
                /\ LET e == Panels'[p][Len(Panels'[p])] IN
                   /\ e.type = "error"
                   /\ \E i \in 1..Len(e.message) : e.message[i] \in SdkErrors
                /\ \A q \in 1..Len(Panels) : q # p => Panels'[q] = Panels[q]
          /\ stats' = stats /\ ecdsaKeyId' = ecdsaKeyId /\ mldsaKeyId' = mldsaKeyId
          /\ sdk' = sdk
          /\ vs'.verificationResult # "valid"
      ]_vars

\* A performance test has ended at a createKey call that failed, with the
\* error in its panel and no key created by it.
NoFailureSwallowedWitness ==
    /\ faults = 1 /\ pf.runs = 1 /\ pf.pc = "idle" /\ ~pf.isRunning
    /\ pf.logs[Len(pf.logs)] = Log("error", <<"Error: ", "KeyGenerationFailed">>)
    /\ Len(pf.created) = 0

\* C18: there is no automatic retry: the step in which an SDK call of a
\* handler fails is the last step of the handler: no handler is under way
\* after it and every busy flag is released, so that no SDK operation is
\* called until a button is clicked, and the store is as the failed call
\* found it; the failed call is the last call the handler has made (the
\* performance test has counted no signature beyond the failed one and has
\* verified nothing).
NoRetryAfterFailure ==
    [][ SdkCallFails =>
          /\ RunningHandlers = 1 /\ RunningHandlers' = 0
          /\ BusyFlags' = {FALSE}
          /\ keys' = keys
          /\ pf' # pf => pf'.signs <= iterations /\ pf'.verifies = 0
          /\ sg'.bothCalls # sg.bothCalls => ~sg'.bothCalls[Len(sg'.bothCalls)].ok
          /\ cm'.calls # cm.calls => ~cm'.calls[Len(cm'.calls)].ok
      ]_vars

\* A rotation has ended at the createKey call of its second key, which
\* failed after the first key had been replaced.
NoRetryAfterFailureWitness ==
    /\ faults = 1 /\ km.outcome = "failed" /\ km.pcRotate = "idle" /\ ~km.isRotating
    /\ km.newEcdsaKeyId # NoKey
    /\ RunningHandlers = 0

\* The identifier is null or that of an active record of BrowserAgent
\* whose suite is one of suites.
TrackedKey(id, suites) ==
    \/ id = NoKey
    \/ /\ id \in KeyIds
       /\ keys[id].status = "active"
       /\ keys[id].agent = BrowserAgent
       /\ keys[id].suite \in suites

\* C21: whatever the interleaving of the create and rotate handlers, the
\* tracked ecdsaKeyId is null or the identifier of an active ECDSA record of
\* BrowserAgent, the tracked mldsaKeyId is null or the identifier of an
\* active ML-DSA record of BrowserAgent, and a tracked identifier that is
\* not null never becomes null.
TrackedKeysValid ==
    /\ [](TrackedKey(ecdsaKeyId, {EcdsaSuite}) /\ TrackedKey(mldsaKeyId, MldsaSuites))
    /\ [][ /\ ecdsaKeyId # NoKey => ecdsaKeyId' # NoKey
           /\ mldsaKeyId # NoKey => mldsaKeyId' # NoKey ]_vars

\* A rotation that was clicked while only the ECDSA key was tracked has
\* replaced that key, and the ML-DSA create handler that ran beside it has
\* tracked its key before the rotation ended.
TrackedKeysValidWitness ==
    /\ km.outcome = "ok" /\ km.ecdsaKeyId # NoKey /\ km.mldsaKeyId = NoKey
    /\ ecdsaKeyId = km.newEcdsaKeyId
    /\ mldsaKeyId # NoKey /\ mldsaKeyId < km.newEcdsaKeyId

\* A rotation ends in its catch block in this step.
RotationFails == km.pcRotate # "idle" /\ km'.outcome = "failed" /\ km'.pcRotate = "idle"

\* C22: a rotation that fails leaves everything as it was: when a createKey
\* call of handleRotateKeys fails, the key store holds no record that the
\* rotation created, the tracked ecdsaKeyId and mldsaKeyId are unchanged and
\* so is the Keys Created counter.
FailedRotationLeavesNothing ==
    [][ RotationFails =>
          /\ \A i \in 1..Len(km'.newKeys) : km'.newKeys[i] \notin 1..Len(keys')
          /\ ecdsaKeyId' = ecdsaKeyId /\ mldsaKeyId' = mldsaKeyId
          /\ stats'.keysCreated = stats.keysCreated
      ]_vars

\* C23: each asynchronous handler guards itself with its busy flag: the
\* flag is set exactly while a run of the handler is under way, a run starts
\* only while the flag is clear, and whenever a flag is set it is cleared
\* later on, whether the run succeeds or fails.
BusyFlagGuards ==
    /\ [](/\ init.isLoading <=> init.pc # "idle"
          /\ kc.isCreatingEcdsa <=> kc.pcEcdsa # "idle"
          /\ kc.isCreatingMldsa <=> kc.pcMldsa # "idle"
          /\ km.isListing <=> km.pcList # "idle"
          /\ km.isRotating <=> km.pcRotate # "idle"
          /\ km.isGettingProfile <=> km.pcProfile # "idle"
          /\ sg.isSigning <=> sg.pcSV # "idle"
          /\ sg.isSigningBoth <=> sg.pcBoth # "idle"
          /\ cm.isSigning <=> cm.pc # "idle"
          /\ vs.isVerifying <=> vs.pc # "idle"
          /\ ks.isLoading <=> ks.pc # "idle"
          /\ pf.isRunning <=> pf.pc # "idle")
    /\ (init.isLoading ~> ~init.isLoading)
    /\ (kc.isCreatingEcdsa ~> ~kc.isCreatingEcdsa)
    /\ (kc.isCreatingMldsa ~> ~kc.isCreatingMldsa)
    /\ (km.isListing ~> ~km.isListing)
    /\ (km.isRotating ~> ~km.isRotating)
    /\ (km.isGettingProfile ~> ~km.isGettingProfile)
    /\ (sg.isSigning ~> ~sg.isSigning)
    /\ (sg.isSigningBoth ~> ~sg.isSigningBoth)
    /\ (cm.isSigning ~> ~cm.isSigning)
    /\ (vs.isVerifying ~> ~vs.isVerifying)
    /\ (ks.isLoading ~> ~ks.isLoading)
    /\ (pf.isRunning ~> ~pf.isRunning)

\* One ECDSA key was created and a first rotation has replaced it; the
\* rotation was clicked again, its createKey call failed, and isRotating is
\* clear again.
BusyFlagGuardsWitness ==
    /\ Len(kc.logs) = 2 /\ mldsaKeyId = NoKey
    /\ km.ecdsaKeyId = 2 /\ ecdsaKeyId = 2
    /\ km.outcome = "failed" /\ faults = 1
    /\ ~km.isRotating /\ BusyFlags = {FALSE}

\* No handler but handleInitialize has done anything: no record is in the
\* key store, no handler is under way and no panel but the first has
\* changed.
NothingHasRun ==
    /\ keys = <<>>
    /\ RunningHandlers = (IF init.pc = "idle" THEN 0 ELSE 1)
    /\ kc.logs = <<>> /\ WorkPanels = FreshPanels
    /\ ecdsaKeyId = NoKey /\ mldsaKeyId = NoKey
    /\ stats = [keysCreated |-> 0, signaturesCreated |-> 0, verifications |-> 0]

\* C24: the SDK instance is created at most once and nothing runs before it
\* exists: while sdk is null no handler has called the SDK; sdk is set
\* exactly when isInitialized is, in one step and once, after which
\* handleInitialize cannot be started again; an initialization that fails
\* leaves sdk null, isInitialized false and the button enabled.
SdkCreatedOnce ==
    /\ []( /\ sdk <=> init.isInitialized
           /\ ~sdk => NothingHasRun )
    /\ [][ /\ sdk' # sdk => ~sdk /\ sdk' /\ init.pc = "create"
           /\ init.isInitialized => init' = init /\ sdk'
           /\ (init.pc # "idle" /\ init'.pc = "idle" /\ faults' # faults) =>
                 /\ ~sdk' /\ ~init'.isInitialized /\ ~init'.isLoading
      ]_vars

\* A first initialization failed, a second one succeeded, and a key was
\* created with the instance.
SdkCreatedOnceWitness ==
    /\ faults = 1 /\ sdk /\ init.isInitialized /\ init.pc = "idle"
    /\ ecdsaKeyId # NoKey

\* The list the storage holds (getItem gives null: no list).
StoredList == IF storage.item THEN JSONparse(storage) ELSE <<>>

\* A run of handleSaveKeys ends in this step: with its last log line, or in
\* its catch block.
SaveSucceeds ==
    /\ ks.pc # "idle" /\ ks'.pc = "idle"
    /\ ks'.logs[Len(ks'.logs)].message[1] = "Keys persist across page refreshes"

SaveFails ==
    /\ ks.pc # "idle" /\ ks'.pc = "idle"
    /\ ks'.logs[Len(ks'.logs)].type = "error"

\* handleClearStorage has run.
ClearStep == ks' # ks /\ ks'.logs = <<Log("success", <<"Storage cleared">>)>>

\* The identifiers and algorithms of the entries for the tracked keys
\* ecdsa and mldsa (NoKey: not tracked), the ECDSA entry first.
EntriesFor(ecdsa, mldsa) ==
    (IF ecdsa # NoKey THEN <<[id |-> ecdsa, algorithm |-> "ECDSA"]>> ELSE <<>>)
    \o (IF mldsa # NoKey THEN <<[id |-> mldsa, algorithm |-> "ML-DSA"]>> ELSE <<>>)

\* C25: browser storage is written atomically and the displayed list
\* mirrors it: storedKeys equals the list held in storage in every state; the
\* storage changes only at the end of a save that succeeds or at a clear; a
\* save that succeeds leaves exactly one entry for each key that was tracked
\* when Save Keys was clicked (at most an ECDSA and an ML-DSA one) in place
\* of what was stored; a save that fails leaves storage and storedKeys as
\* they were; a clear leaves both empty.
StorageAtomicAndMirrored ==
    /\ [](ks.storedKeys = StoredList)
    /\ [][ /\ storage' # storage => SaveSucceeds \/ ClearStep
           /\ SaveSucceeds =>
                 /\ storage'.item
                 /\ [i \in 1..Len(JSONparse(storage')) |->
                        [id |-> JSONparse(storage')[i].id,
                         algorithm |-> JSONparse(storage')[i].algorithm]]
                      = EntriesFor(ks.ecdsaKeyId, ks.mldsaKeyId)
                 /\ Len(JSONparse(storage')) \in 1..2
           /\ SaveFails => storage' = storage /\ ks'.storedKeys = ks.storedKeys
           /\ ClearStep => ~storage'.item /\ ks'.storedKeys = <<>>
      ]_vars

\* A save of two keys was refused by the browser while an earlier save of
\* one key was in the storage: the storage and the list shown still hold
\* that one entry.
StorageAtomicAndMirroredWitness ==
    /\ faults = 1 /\ ks.pc = "idle"
    /\ ks.logs[Len(ks.logs)] = Log("error", <<"Error: ", "QuotaExceededError">>)
    /\ Len(ks.logs) >= 4
    /\ storage.item /\ Len(JSONparse(storage)) = 1 /\ ks.storedKeys = JSONparse(storage)
    /\ ecdsaKeyId # NoKey /\ mldsaKeyId # NoKey

\* C27: the Signatures Created counter equals the Verifications counter in
\* every state; both start at 0; neither decreases; and they change only
\* together, by one each (handleStatsUpdate).
CountersMoveTogether ==
    /\ stats.signaturesCreated = 0 /\ stats.verifications = 0
    /\ [](stats.signaturesCreated = stats.verifications)
    /\ [][ (stats'.signaturesCreated # stats.signaturesCreated
              \/ stats'.verifications # stats.verifications) =>
                 /\ stats'.signaturesCreated = stats.signaturesCreated + 1
                 /\ stats'.verifications = stats.verifications + 1
      ]_vars

\* handleStatsUpdate has run three times: after each of two key creations
\* and after a signing.
CountersMoveTogetherWitness ==
    /\ stats.signaturesCreated = 3 /\ stats.verifications = 3
    /\ stats.keysCreated = 2 /\ sg.logs # <<>>
    /\ RunningHandlers = 0

\* The signWithKey calls of a handler's calls that returned a signature.
SignaturesOf(calls) ==
    Cardinality({i \in 1..Len(calls) : calls[i].op = "signWithKey" /\ calls[i].ok})

\* The signatures produced by the signing handler that ends without an
\* error in this step (0: no signing handler does).
SignaturesProduced ==
    IF sg.pcSV # "idle" /\ sg'.pcSV = "idle" /\ faults' = faults THEN 1
    ELSE IF sg.pcBoth # "idle" /\ sg'.pcBoth = "idle" /\ faults' = faults
         THEN SignaturesOf(sg'.bothCalls)
    ELSE IF cm.pc # "idle" /\ cm'.pc = "idle" /\ cm'.outcome = "ok"
         THEN SignaturesOf(cm'.calls)
    ELSE 0

\* C28: the Signatures Created counter counts signing: in every step it
\* grows by the number of signatures the handler that ends in the step has
\* produced with signWithKey, and so it is unchanged by a key creation, by a
\* rotation and by an operation that failed.
SignatureCounterCountsSigning ==
    [][ stats'.signaturesCreated = stats.signaturesCreated + SignaturesProduced ]_vars

\* A run of the performance test has reached its last log line.
PerformanceComplete ==
    /\ pf.pc = "idle" /\ pf.logs # <<>>
    /\ pf.logs[Len(pf.logs)].message = <<"verifications/sec">>

\* C29: a performance test run terminates and touches only its own agents:
\* a run that is under way ends with isRunning cleared; no step of it changes
\* a key record that exists (it adds the records it creates, one at a time,
\* and no other), the key list of BrowserAgent, the tracked
\* ecdsaKeyId and mldsaKeyId, the counters or the browser storage; and a run
\* in which no call failed has created exactly 11 ECDSA keys, one for each
\* of PerfAgent0..PerfAgent9 and one for PerfTest, has made 101 sign and 100
\* verify calls, and has cleared isRunning.
PerformanceRunIsolated ==
    /\ (pf.isRunning ~> ~pf.isRunning)
    /\ [][ pf' # pf =>
             /\ \A k \in KeyIds : k \in 1..Len(keys') /\ keys'[k] = keys[k]
             /\ Len(keys') # Len(keys) =>
                    /\ Len(keys') = Len(keys) + 1
                    /\ pf'.created = Append(pf.created, Len(keys'))
             /\ listKeysForAgent(BrowserAgent, FALSE)' = listKeysForAgent(BrowserAgent, FALSE)
             /\ ecdsaKeyId' = ecdsaKeyId /\ mldsaKeyId' = mldsaKeyId
             /\ stats' = stats /\ storage' = storage
       ]_vars
    /\ [](PerformanceComplete =>
             /\ ~pf.isRunning
             /\ Len(pf.created) = 11
             /\ Cardinality({pf.created[i] : i \in 1..Len(pf.created)}) = 11
             /\ \A i \in 1..10 : keys[pf.created[i]].agent = "PerfAgent" \o ToString(i - 1)
             /\ keys[pf.created[11]].agent = "PerfTest"
             /\ \A i \in 1..11 : keys[pf.created[i]].suite = EcdsaSuite
             /\ pf.signs = 101 /\ pf.verifies = 100)

\* A run has ended on a page that tracks an ECDSA and an ML-DSA key of
\* BrowserAgent, with no call failing.
PerformanceRunIsolatedWitness ==
    /\ PerformanceComplete /\ faults = 0
    /\ ecdsaKeyId # NoKey /\ mldsaKeyId # NoKey
    /\ Len(listKeysForAgent(BrowserAgent, FALSE)) = 2
    /\ Len(keys) = 13

====
